---- MODULE Spec2Model ----
(***************************************************************************)
(* Knowledge-graph construction, persistence and query engine of the       *)
(* movie backend (utils/knowledge_graph/*.py, routes/knowledge_graph.py).  *)
(*                                                                         *)
(* Strings are sequences of one-character strings, so that sanitizing,     *)
(* truncation, lower-casing and substring tests are computed as the code   *)
(* computes them.  A Python dict is a function whose DOMAIN is its key     *)
(* set; where the code depends on insertion order (graph nodes,            *)
(* adjacency, the type index) the order is kept in a sequence.             *)
(* Ratings are held in tenths (80 stands for 8.0).                         *)
(*                                                                         *)
(* SpecEngine is the KnowledgeGraph class on its own (build, save, load).  *)
(* SpecQuery is a KnowledgeGraph that is built and then queried.           *)
(* Spec is the serving process: request threads that go through            *)
(* get_kg_recommender, the recommender's initialize and query methods,     *)
(* and the files of the data directory.                                    *)
(* SpecNormalize is the KGDataProcessor reading raw source files.          *)
(* SpecRebuild is a sequence of process runs between which the operator    *)
(* changes or deletes files of the data directory.                         *)
(* SpecSteps is the serving process with initialize taken statement by     *)
(* statement, so that threads interleave inside it.                        *)
(***************************************************************************)
EXTENDS Integers, Sequences, FiniteSets, TLC

VARIABLES
    kgs,            \* the KnowledgeGraph objects: name -> [graph, node_types, initialized]
    model_file,     \* content of <data_directory>/kg_model.pkl
    last,           \* the last operation: its name, arguments and return value
    saved,          \* history: the KnowledgeGraph state the last successful save_graph wrote
    kg_recommender, \* the global of routes/knowledge_graph.py: None or a recommender's name
    recs,           \* the KnowledgeGraphRecommender objects: name -> [initialized]; the
                    \* KnowledgeGraph of recommender r is kgs[r]
    pc,             \* thread -> its position in a request
    local,          \* thread -> the locals of its request
    csv_files,      \* content of the two CSV files of the data directory
    processed_data_file,    \* content of <data_directory>/kg_processed_data.pkl
    hist            \* history of the process: initialize runs and the outcome of the first

process == <<kg_recommender, recs, pc, local, csv_files, processed_data_file, hist>>

vars == <<kgs, model_file, last, saved, kg_recommender, recs, pc, local, csv_files,
          processed_data_file, hist>>

None == "None"

(***************************************************************************)
(* Strings                                                                 *)
(***************************************************************************)
RECURSIVE Digits(_)
\* str(n) of a natural number
Digits(n) ==
    LET d == <<"0", "1", "2", "3", "4", "5", "6", "7", "8", "9">>
    IN  IF n < 10 THEN <<d[n + 1]>> ELSE Digits(n \div 10) \o <<d[(n % 10) + 1]>>

\* s[:n]
Prefix(s, n) == SubSeq(s, 1, IF Len(s) < n THEN Len(s) ELSE n)

\* s.replace(a, b) for one-character a and b
ReplaceChar(s, a, b) == [i \in 1..Len(s) |-> IF s[i] = a THEN b ELSE s[i]]

SanitizeLen == 50

\* kg_graph.py _sanitize_name
_sanitize_name(name) ==
    Prefix(ReplaceChar(ReplaceChar(ReplaceChar(ReplaceChar(name,
        " ", "_"), "/", "_"), "-", "_"), ":", "_"), SanitizeLen)

\* f"{prefix}_{key}"
NodeId(prefix, key) == prefix \o <<"_">> \o key

MoviePrefix    == <<"m", "o", "v", "i", "e">>
GenrePrefix    == <<"g", "e", "n", "r", "e">>
DirectorPrefix == <<"d", "i", "r", "e", "c", "t", "o", "r">>
ActorPrefix    == <<"a", "c", "t", "o", "r">>
KeywordPrefix  == <<"k", "e", "y", "w", "o", "r", "d">>
CompanyPrefix  == <<"c", "o", "m", "p", "a", "n", "y">>

(***************************************************************************)
(* Python dicts and lists                                                  *)
(***************************************************************************)
\* d.get(k, default)
Get(d, k, default) == IF k \in DOMAIN d THEN d[k] ELSE default

\* d.update(e): the keys of e take e's values, the others keep theirs
Update(d, e) == e @@ d

Range(s) == {s[i] : i \in 1..Len(s)}

(***************************************************************************)
(* networkx.Graph: nodes in insertion order, their attribute dicts, each   *)
(* node's neighbours in insertion order, and the attribute dict of each    *)
(* undirected edge {u, v}.                                                 *)
(***************************************************************************)
EmptyGraph == [nodes |-> <<>>, attr |-> <<>>, adj |-> <<>>, edge |-> <<>>]

HasNode(g, n) == n \in DOMAIN g.attr

\* An existing node keeps its attributes (setdefault instead of update).
add_node_keep(g, n, attrs) ==
    IF HasNode(g, n)
    THEN g
    ELSE [g EXCEPT !.nodes = Append(@, n),
                   !.attr = (n :> attrs) @@ @,
                   !.adj = (n :> <<>>) @@ @]

\* nx.Graph.add_node(n, **attrs): a new node is appended; an existing node keeps its
\* place and its attribute dict is updated
add_node(g, n, attrs) ==
    IF HasNode(g, n)
    THEN [g EXCEPT !.attr[n] = Update(@, attrs)]
    ELSE [g EXCEPT !.nodes = Append(@, n),
                   !.attr = (n :> attrs) @@ @,
                   !.adj = (n :> <<>>) @@ @]

\* adjacency dict of a node after the neighbour b is set in it
Linked(s, b) == IF \E i \in 1..Len(s) : s[i] = b THEN s ELSE Append(s, b)

\* nx.Graph.add_edge(u, v, **attrs): both ends are added if missing; an existing edge
\* keeps its place in both adjacency dicts and its attribute dict is updated
add_edge(g, u, v, attrs) ==
    LET g1 == IF HasNode(g, u) THEN g ELSE add_node(g, u, <<>>)
        g2 == IF HasNode(g1, v) THEN g1 ELSE add_node(g1, v, <<>>)
        e  == {u, v}
        old == IF e \in DOMAIN g2.edge THEN g2.edge[e] ELSE <<>>
    IN  [g2 EXCEPT !.edge = (e :> Update(old, attrs)) @@ @,
                   !.adj[u] = Linked(@, v),
                   !.adj[v] = Linked(@, u)]

\* list(graph.neighbors(n))
neighbors(g, n) == g.adj[n]

(***************************************************************************)
(* The type index: a defaultdict(list), type -> node ids.  `keys` is the   *)
(* dict's key order, `bucket` its values.                                  *)
(***************************************************************************)
EmptyIndex == [keys |-> <<>>, bucket |-> <<>>, default_factory |-> "list"]

\* node_types.get(t, default): reads, never inserts
IndexGet(nt, t, default) == IF t \in DOMAIN nt.bucket THEN nt.bucket[t] ELSE default

\* node_types[t].append(n): indexing a defaultdict inserts a missing key with list()
IndexAppend(nt, t, n) ==
    IF t \in DOMAIN nt.bucket
    THEN [nt EXCEPT !.bucket[t] = Append(@, n)]
    ELSE [nt EXCEPT !.keys = Append(@, t), !.bucket = (t :> <<n>>) @@ @]

\* KnowledgeGraph.__init__
NewKnowledgeGraph == [graph |-> EmptyGraph, node_types |-> EmptyIndex, initialized |-> FALSE]

(***************************************************************************)
(* build_graph_from_data                                                   *)
(***************************************************************************)
GenreLimit    == 5
DirectorLimit == 3
ActorLimit    == 5
KeywordLimit  == 5
CompanyLimit  == 3

\* A mis-copied block: the company block keeps the keyword block's relation label.
CategoriesMislabelled ==
    << [column |-> "genres_parsed", prefix |-> GenrePrefix, type |-> "genre",
        relation |-> "has_genre", limit |-> GenreLimit],
       [column |-> "directors", prefix |-> DirectorPrefix, type |-> "director",
        relation |-> "directed_by", limit |-> DirectorLimit],
       [column |-> "cast_parsed", prefix |-> ActorPrefix, type |-> "actor",
        relation |-> "starring", limit |-> ActorLimit],
       [column |-> "keywords_parsed", prefix |-> KeywordPrefix, type |-> "keyword",
        relation |-> "has_keyword", limit |-> KeywordLimit],
       [column |-> "production_companies_parsed", prefix |-> CompanyPrefix, type |-> "company",
        relation |-> "has_keyword", limit |-> CompanyLimit] >>

\* The five entity blocks of the row loop, in the order the code runs them.
Categories ==
    << [column |-> "genres_parsed", prefix |-> GenrePrefix, type |-> "genre",
        relation |-> "has_genre", limit |-> GenreLimit],
       [column |-> "directors", prefix |-> DirectorPrefix, type |-> "director",
        relation |-> "directed_by", limit |-> DirectorLimit],
       [column |-> "cast_parsed", prefix |-> ActorPrefix, type |-> "actor",
        relation |-> "starring", limit |-> ActorLimit],
       [column |-> "keywords_parsed", prefix |-> KeywordPrefix, type |-> "keyword",
        relation |-> "has_keyword", limit |-> KeywordLimit],
       [column |-> "production_companies_parsed", prefix |-> CompanyPrefix, type |-> "company",
        relation |-> "produced_by", limit |-> CompanyLimit] >>

\* f"movie_{row['id']}"
MovieNode(id) == NodeId(MoviePrefix, Digits(id))

\* The movie node's attributes as the row loop sets them.  str() of a string and
\* float()/int() of the numeric columns keep the value.
MovieAttrs(row) ==
    [type |-> "movie", title |-> row.title_x, year |-> row.year,
     rating |-> row.vote_average, popularity |-> row.popularity,
     vote_count |-> row.vote_count]

\* TLC hands an operator its arguments unevaluated, so a loop written as a recursion
\* would nest the insertions of the whole loop before evaluating any.  Evaluated(v)
\* makes it evaluate v first, as the Python loop does in each iteration.
Evaluated(v) == DOMAIN v = DOMAIN v

\* if name: add_node(<prefix>_<sanitized>, type, name); add_edge(movie, it, relation)
AddEntity(g, movie_id, name, cat) ==
    LET nid == NodeId(cat.prefix, _sanitize_name(name))
    IN  IF name = <<>> THEN g
        ELSE add_edge(add_node(g, nid, [type |-> cat.type, name |-> name]),
                      movie_id, nid, [relation |-> cat.relation])

RECURSIVE AddEntities(_, _, _, _)
\* for name in names: ...
AddEntities(g, movie_id, names, cat) ==
    IF names = <<>> THEN g
    ELSE LET g1 == AddEntity(g, movie_id, Head(names), cat)
         IN  CASE Evaluated(g1) -> AddEntities(g1, movie_id, Tail(names), cat)

RECURSIVE AddCategoriesUncut(_, _, _, _)
\* The columns are not cut to the blocks' limits.
AddCategoriesUncut(g, movie_id, row, cats) ==
    IF cats = <<>> THEN g
    ELSE LET cat == Head(cats)
             g1  == AddEntities(g, movie_id, row[cat.column], cat)
         IN  CASE Evaluated(g1) -> AddCategoriesUncut(g1, movie_id, row, Tail(cats))

RECURSIVE AddCategories(_, _, _, _)
\* the five blocks in turn, each over its column cut to the block's limit
AddCategories(g, movie_id, row, cats) ==
    IF cats = <<>> THEN g
    ELSE LET cat == Head(cats)
             g1  == AddEntities(g, movie_id, Prefix(row[cat.column], cat.limit), cat)
         IN  CASE Evaluated(g1) -> AddCategories(g1, movie_id, row, Tail(cats))

\* One iteration of the row loop.
AddRow(g, row) ==
    LET movie_id == MovieNode(row.id)
    IN  AddCategories(add_node(g, movie_id, MovieAttrs(row)), movie_id, row, Categories)

RECURSIVE AddRows(_, _)
\* for _, row in df.iterrows(): ...
AddRows(g, df) ==
    IF df = <<>> THEN g
    ELSE LET g1 == AddRow(g, Head(df))
         IN  CASE Evaluated(g1) -> AddRows(g1, Tail(df))

RECURSIVE Bucketed(_, _, _)
\* for node, attrs in graph.nodes(data=True): node_types[attrs.get('type', 'unknown')].append(node)
Bucketed(nt, g, nodes) ==
    IF nodes = <<>> THEN nt
    ELSE LET nt1 == IndexAppend(nt, Get(g.attr[Head(nodes)], "type", "unknown"), Head(nodes))
         IN  CASE Evaluated(nt1) -> Bucketed(nt1, g, Tail(nodes))

\* KnowledgeGraph._categorize_nodes
_categorize_nodes(kg) == [kg EXCEPT !.node_types = Bucketed(EmptyIndex, kg.graph, kg.graph.nodes)]

\* KnowledgeGraph.build_graph_from_data: [raised, ret, kg]
build_graph_from_data(kg, df) ==
    IF Len(df) = 0
    THEN [raised |-> TRUE, ret |-> None, kg |-> kg]
    ELSE [raised |-> FALSE, ret |-> TRUE,
          kg |-> [_categorize_nodes([kg EXCEPT !.graph = AddRows(kg.graph, df)])
                      EXCEPT !.initialized = TRUE]]

(***************************************************************************)
(* String literals                                                         *)
(***************************************************************************)
T_Heat == <<"H", "e", "a", "t">>
T_1995 == <<"1", "9", "9", "5">>
T_Action == <<"A", "c", "t", "i", "o", "n">>
T_Crime == <<"C", "r", "i", "m", "e">>
T_Drama == <<"D", "r", "a", "m", "a">>
T_War == <<"W", "a", "r">>
T_Noir == <<"N", "o", "i", "r">>
T_Epic == <<"E", "p", "i", "c">>
T_AlBo == <<"A", "l", " ", "B", "o">>
T_Al_Bo == <<"A", "l", "-", "B", "o">>
T_Cy == <<"C", "y">>
T_Di == <<"D", "i">>
T_Ed == <<"E", "d">>
T_Al == <<"A", "l">>
T_Bo == <<"B", "o">>
T_Flo == <<"F", "l", "o">>
T_heist == <<"h", "e", "i", "s", "t">>
T_war == <<"w", "a", "r">>
T_la == <<"l", ":", "a">>
T_cop == <<"c", "o", "p">>
T_bank == <<"b", "a", "n", "k">>
T_gun == <<"g", "u", "n">>
T_Fox == <<"F", "o", "x">>
T_WB == <<"W", "/", "B">>
T_A24 == <<"A", "2", "4">>
T_MGM == <<"M", "G", "M">>
T_Heat2 == <<"H", "e", "a", "t", " ", "I", "I">>
T_1999 == <<"1", "9", "9", "9">>
T_SciFi == <<"S", "c", "i", "-", "F", "i">>
T_Up == <<"U", "p">>
T_2009 == <<"2", "0", "0", "9">>
T_Cold == <<"C", "o", "l", "d", " ", "h", "e", "a", "t">>
T_Unknown == <<"U", "n", "k", "n", "o", "w", "n">>

(***************************************************************************)
(* save_graph / load_graph.  The file does not exist (Missing), holds the   *)
(* bytes of an interrupted dump (Truncated), or a complete pickle of a     *)
(* dict.                                                                   *)
(***************************************************************************)
Missing == [state |-> "missing"]
Truncated == [state |-> "truncated"]

\* pickle.dump(obj, f) run to completion
Pickle(obj) == [state |-> "pickle", pickle |-> obj]

IsPickle(content) == content.state = "pickle"

\* dict(self.node_types): the items without the default factory
PlainDict(nt) == [keys |-> nt.keys, bucket |-> nt.bucket]

\* defaultdict(list, d)
DefaultDictList(d) == [keys |-> d.keys, bucket |-> d.bucket, default_factory |-> "list"]

\* How a save can end: the dump completes; open(filepath, 'wb') raises (the file is
\* untouched); or the dump raises after open() has truncated the file.
SaveOutcomes == {"ok", "open_raises", "dump_raises"}

\* KnowledgeGraph.save_graph: [ret, file]
save_graph(kg, content, io) ==
    CASE io = "ok" ->
            [ret |-> TRUE,
             file |-> Pickle([graph |-> kg.graph, node_types |-> PlainDict(kg.node_types),
                              initialized |-> kg.initialized])]
      [] io = "open_raises" -> [ret |-> FALSE, file |-> content]
      [] OTHER -> [ret |-> FALSE, file |-> Truncated]

\* The initialized entry of the blob is not read back.
load_graph_noflag(kg, content) ==
    IF ~IsPickle(content) THEN [ret |-> FALSE, kg |-> kg]
    ELSE LET d == content.pickle
         IN  IF "graph" \notin DOMAIN d \/ "node_types" \notin DOMAIN d THEN [ret |-> FALSE, kg |-> kg]
             ELSE [ret |-> TRUE,
                   kg |-> [kg EXCEPT !.graph = d.graph, !.node_types = DefaultDictList(d.node_types)]]

\* The graph is read back but the type index is not.
load_graph_noindex(kg, content) ==
    IF ~IsPickle(content) THEN [ret |-> FALSE, kg |-> kg]
    ELSE LET d == content.pickle
         IN  IF "graph" \notin DOMAIN d \/ "initialized" \notin DOMAIN d THEN [ret |-> FALSE, kg |-> kg]
             ELSE [ret |-> TRUE,
                   kg |-> [kg EXCEPT !.graph = d.graph, !.initialized = d.initialized]]

\* KnowledgeGraph.load_graph: [ret, kg].  The three assignments run in order, so a
\* missing key leaves the assignments before it in place.
load_graph(kg, content) ==
    IF ~IsPickle(content) THEN [ret |-> FALSE, kg |-> kg]
    ELSE LET d  == content.pickle
             k1 == [kg EXCEPT !.graph = d.graph]
             k2 == [k1 EXCEPT !.node_types = DefaultDictList(d.node_types)]
             k3 == [k2 EXCEPT !.initialized = d.initialized]
         IN  IF "graph" \notin DOMAIN d THEN [ret |-> FALSE, kg |-> kg]
             ELSE IF "node_types" \notin DOMAIN d THEN [ret |-> FALSE, kg |-> k1]
             ELSE IF "initialized" \notin DOMAIN d THEN [ret |-> FALSE, kg |-> k2]
             ELSE [ret |-> TRUE, kg |-> k3]

(***************************************************************************)
(* Normalized rows used as input.                                          *)
(***************************************************************************)
Rep(c, n) == [i \in 1..n |-> c]

LongName1 == Rep("x", SanitizeLen) \o <<"a">>
LongName2 == Rep("x", SanitizeLen) \o <<"b">>

Row1 ==
    [id |-> 1, title_x |-> T_Heat, year |-> T_1995, vote_average |-> 82,
     popularity |-> 17, vote_count |-> 1200,
     genres_parsed |-> <<T_Action, T_Crime, T_Drama, T_War, T_Noir, T_Epic>>,
     directors |-> <<T_AlBo, T_Cy, T_Di, T_Ed>>,
     cast_parsed |-> <<T_Al, T_Bo, T_Cy, T_Di, T_Ed, T_Flo>>,
     keywords_parsed |-> <<T_heist, T_war, T_la, T_cop, T_bank, T_gun>>,
     production_companies_parsed |-> <<T_Fox, T_WB, T_A24, T_MGM>>]

Row2 ==
    [id |-> 1, title_x |-> T_Heat2, year |-> T_1999, vote_average |-> 64,
     popularity |-> 120, vote_count |-> 30,
     genres_parsed |-> <<T_Epic, T_SciFi>>,
     directors |-> <<T_Flo>>,
     cast_parsed |-> <<T_Flo>>,
     keywords_parsed |-> <<T_gun>>,
     production_companies_parsed |-> <<T_MGM>>]

Row3 ==
    [id |-> 2, title_x |-> T_Up, year |-> T_2009, vote_average |-> 82,
     popularity |-> 17, vote_count |-> 1200,
     genres_parsed |-> <<T_Action>>,
     directors |-> <<T_Al_Bo, T_AlBo>>,
     cast_parsed |-> <<<<>>, T_Al>>,
     keywords_parsed |-> <<LongName1, LongName2>>,
     production_companies_parsed |-> <<T_War>>]

Row4 ==
    [id |-> 13, title_x |-> T_Cold, year |-> T_Unknown, vote_average |-> 0,
     popularity |-> 0, vote_count |-> 0,
     genres_parsed |-> <<>>, directors |-> <<>>, cast_parsed |-> <<>>,
     keywords_parsed |-> <<>>, production_companies_parsed |-> <<>>]

RowPool == {Row1, Row2, Row3, Row4}

MaxRows == 2

\* The dataframes handed to the builder: every sequence of at most MaxRows rows.
RECURSIVE RowSeqs(_)
RowSeqs(n) ==
    IF n = 0 THEN {<<>>}
    ELSE LET shorter == RowSeqs(n - 1)
         IN  shorter \cup {Append(df, row) : df \in {d \in shorter : Len(d) = n - 1}, row \in RowPool}

DataFrames == RowSeqs(MaxRows)

(***************************************************************************)
(* Queries of KnowledgeGraph                                               *)
(***************************************************************************)
UpperCase == <<"A", "B", "C", "D", "E", "F", "G", "H", "I", "J", "K", "L", "M",
               "N", "O", "P", "Q", "R", "S", "T", "U", "V", "W", "X", "Y", "Z">>
LowerCase == <<"a", "b", "c", "d", "e", "f", "g", "h", "i", "j", "k", "l", "m",
               "n", "o", "p", "q", "r", "s", "t", "u", "v", "w", "x", "y", "z">>

\* the lower-case letter of each upper-case letter
ToLower == [c \in Range(UpperCase) |-> LowerCase[CHOOSE k \in 1..Len(UpperCase) : UpperCase[k] = c]]

\* str.lower()
Lower(s) == [i \in 1..Len(s) |-> IF s[i] \in DOMAIN ToLower THEN ToLower[s[i]] ELSE s[i]]

\* sub in s
Contains(sub, s) == \E i \in 0..(Len(s) - Len(sub)) : SubSeq(s, i + 1, i + Len(sub)) = sub

\* None where a node id is expected; no node id is empty, so `not node` holds of it alone
NoNode == <<>>

\* None where a dict is expected
NoDict == [py_none |-> TRUE]

RECURSIVE FirstMovieByTitle(_, _, _)
FirstMovieByTitle(g, title_lower, nodes) ==
    IF nodes = <<>> THEN NoNode
    ELSE IF /\ Get(g.attr[Head(nodes)], "type", None) = "movie"
            /\ Contains(title_lower, Lower(Get(g.attr[Head(nodes)], "title", <<>>)))
         THEN Head(nodes)
         ELSE FirstMovieByTitle(g, title_lower, Tail(nodes))

\* The title asked for is compared as given (title.lower() is missing).
find_movie_by_title_cased(kg, title) == FirstMovieByTitle(kg.graph, title, kg.graph.nodes)

\* KnowledgeGraph.find_movie_by_title
find_movie_by_title(kg, title) == FirstMovieByTitle(kg.graph, Lower(title), kg.graph.nodes)

\* the names of the neighbours of type t, in adjacency order, empty names left out
NeighborNames(g, n, t) ==
    LET hits == SelectSeq(neighbors(g, n),
                          LAMBDA x : Get(g.attr[x], "type", None) = t /\ Get(g.attr[x], "name", <<>>) # <<>>)
    IN  [i \in 1..Len(hits) |-> g.attr[hits[i]].name]

\* the dict get_movie_details returns for a node of the graph
MovieData(g, movie_id) ==
    Update(g.attr[movie_id],
           [genres    |-> NeighborNames(g, movie_id, "genre"),
            directors |-> NeighborNames(g, movie_id, "director"),
            actors    |-> NeighborNames(g, movie_id, "actor"),
            keywords  |-> NeighborNames(g, movie_id, "keyword"),
            companies |-> NeighborNames(g, movie_id, "company")])

\* movie_data is the node's own attribute dict, not a copy of it: the five lists are
\* stored on the node.
get_movie_details_aliased(kg, movie_id) ==
    IF ~HasNode(kg.graph, movie_id)
    THEN [ret |-> NoDict, kg |-> kg]
    ELSE [ret |-> MovieData(kg.graph, movie_id),
          kg  |-> [kg EXCEPT !.graph.attr[movie_id] = MovieData(kg.graph, movie_id)]]

\* graph.nodes[movie_id] is read without the membership test before it, so an id that
\* is not in the graph raises KeyError.
get_movie_details_unchecked(kg, movie_id) ==
    IF ~HasNode(kg.graph, movie_id)
    THEN [ret |-> [raised |-> "KeyError"], kg |-> kg]
    ELSE [ret |-> MovieData(kg.graph, movie_id), kg |-> kg]

\* KnowledgeGraph.get_movie_details: [ret, kg].  movie_data = dict(...) is a copy, so
\* filling it leaves the node's attribute dict as it was.
get_movie_details(kg, movie_id) ==
    IF ~HasNode(kg.graph, movie_id)
    THEN [ret |-> NoDict, kg |-> kg]
    ELSE [ret |-> MovieData(kg.graph, movie_id), kg |-> kg]

RECURSIVE SearchLoop(_, _, _, _, _)
\* the scan of search_movies from `nodes` on, with `results` collected so far: [ret, kg]
SearchLoop(kg, query_lower, limit, nodes, results) ==
    IF nodes = <<>> THEN [ret |-> results, kg |-> kg]
    ELSE LET node == Head(nodes)
             attrs == kg.graph.attr[node]
             hit == /\ Get(attrs, "type", None) = "movie"
                    /\ Contains(query_lower, Lower(Get(attrs, "title", <<>>)))
             d == get_movie_details(kg, node)
         IN  IF ~hit THEN SearchLoop(kg, query_lower, limit, Tail(nodes), results)
             ELSE IF d.ret = NoDict THEN SearchLoop(d.kg, query_lower, limit, Tail(nodes), results)
             ELSE IF Len(results) + 1 >= limit THEN [ret |-> Append(results, d.ret), kg |-> d.kg]
             ELSE SearchLoop(d.kg, query_lower, limit, Tail(nodes), Append(results, d.ret))

\* KnowledgeGraph.search_movies: [ret, kg]
search_movies(kg, query, limit) ==
    IF ~kg.initialized THEN [ret |-> <<>>, kg |-> kg]
    ELSE SearchLoop(kg, Lower(query), limit, kg.graph.nodes, <<>>)

\* the test of find_movies_by_keyword on a node: `and` binds tighter than `or`
KeywordMatches(attrs, keyword_lower) ==
    \/ /\ Get(attrs, "type", None) \in {"movie", "genre", "director", "actor", "keyword"}
       /\ Contains(keyword_lower, Lower(Get(attrs, "title", <<>>)))
    \/ Contains(keyword_lower, Lower(Get(attrs, "name", <<>>)))

\* type weights of _calculate_movie_score, in tenths
DirectMatchScore == 20
DirectorScore == 15
GenreScore == 10
ActorScore == 8
KeywordScore == 6

\* The weights of director and genre are exchanged.
TypeWeightExchanged(t) ==
    CASE t = "director" -> GenreScore
      [] t = "genre" -> DirectorScore
      [] t = "actor" -> ActorScore
      [] t = "keyword" -> KeywordScore
      [] OTHER -> 0

\* A company neighbour that matches counts too (an extra elif branch, in tenths).
TypeWeightWithCompany(t) ==
    CASE t = "director" -> DirectorScore
      [] t = "genre" -> GenreScore
      [] t = "actor" -> ActorScore
      [] t = "keyword" -> KeywordScore
      [] t = "company" -> KeywordScore
      [] OTHER -> 0

TypeWeight(t) ==
    CASE t = "director" -> DirectorScore
      [] t = "genre" -> GenreScore
      [] t = "actor" -> ActorScore
      [] t = "keyword" -> KeywordScore
      [] OTHER -> 0

RECURSIVE SumWeights(_, _, _)
SumWeights(g, movie_neighbors, matching) ==
    IF matching = <<>> THEN 0
    ELSE (IF Head(matching) \in movie_neighbors THEN TypeWeight(Get(g.attr[Head(matching)], "type", None)) ELSE 0)
         + SumWeights(g, movie_neighbors, Tail(matching))

\* KnowledgeGraph._calculate_movie_score, in tenths
_calculate_movie_score(g, movie_node, matching_nodes) ==
    IF matching_nodes = <<>> THEN 0
    ELSE (IF movie_node \in Range(matching_nodes) THEN DirectMatchScore ELSE 0)
         + SumWeights(g, Range(neighbors(g, movie_node)), matching_nodes)

Min(a, b) == IF a < b THEN a ELSE b
Max(a, b) == IF a > b THEN a ELSE b
Abs(a) == IF a < 0 THEN -a ELSE a

PopularityCap == 100
VoteCountCap == 1000

\* final_score of find_movies_by_keyword times 10000:
\* relevance * 0.5 + rating/10 * 0.3 + min(popularity/100, 1) * 0.1 + min(vote_count/1000, 1) * 0.1
FinalScore(relevance, attrs) ==
    500 * relevance + 30 * Get(attrs, "rating", 0)
    + 10 * Min(Get(attrs, "popularity", 0), PopularityCap)
    + Min(Get(attrs, "vote_count", 0), VoteCountCap)

RECURSIVE SortedDesc(_, _)
\* list.sort(key=score, reverse=True) of scored \o rest: stable, so entries of equal
\* score keep their order.  Scores are fractions [num, den] with den > 0.
SortedDesc(sorted, rest) ==
    IF rest = <<>> THEN sorted
    ELSE LET x == Head(rest)
             ahead == {i \in 1..Len(sorted) : sorted[i].num * x.den < x.num * sorted[i].den}
             k == IF ahead = {} THEN Len(sorted) + 1
                  ELSE CHOOSE i \in ahead : \A j \in ahead : i <= j
         IN  SortedDesc(SubSeq(sorted, 1, k - 1) \o <<x>> \o SubSeq(sorted, k, Len(sorted)), Tail(rest))

\* lst[:n], also for n < 0
Slice(lst, n) == IF n >= 0 THEN Prefix(lst, n) ELSE Prefix(lst, Max(Len(lst) + n, 0))

\* matching_nodes of find_movies_by_keyword, in node order
MatchingNodes(g, keyword_lower) == SelectSeq(g.nodes, LAMBDA n : KeywordMatches(g.attr[n], keyword_lower))

\* movie_scores of find_movies_by_keyword over the movies `scored`, before the sort
MovieScores(g, scored, matching_nodes) ==
    [i \in 1..Len(scored) |->
        [node |-> scored[i],
         num |-> FinalScore(_calculate_movie_score(g, scored[i], matching_nodes), g.attr[scored[i]]),
         den |-> 1]]

\* Every movie is scored and ranked, also one of score 0 (the `if score > 0` is missing).
find_movies_by_keyword_unfiltered(kg, keyword, top_n) ==
    IF ~kg.initialized THEN <<>>
    ELSE LET g == kg.graph
             matching_nodes == MatchingNodes(g, Lower(keyword))
             movie_nodes == IndexGet(kg.node_types, "movie", <<>>)
             ranked == Slice(SortedDesc(<<>>, MovieScores(g, movie_nodes, matching_nodes)), top_n)
         IN  [i \in 1..Len(ranked) |-> ranked[i].node]

\* The scored movies are cut to top_n in the order they were scored (the sort is missing).
find_movies_by_keyword_unsorted(kg, keyword, top_n) ==
    IF ~kg.initialized THEN <<>>
    ELSE LET g == kg.graph
             matching_nodes == MatchingNodes(g, Lower(keyword))
             movie_nodes == IndexGet(kg.node_types, "movie", <<>>)
             scored == SelectSeq(movie_nodes, LAMBDA mv : _calculate_movie_score(g, mv, matching_nodes) > 0)
             ranked == Slice(MovieScores(g, scored, matching_nodes), top_n)
         IN  [i \in 1..Len(ranked) |-> ranked[i].node]

\* KnowledgeGraph.find_movies_by_keyword
find_movies_by_keyword(kg, keyword, top_n) ==
    IF ~kg.initialized THEN <<>>
    ELSE LET g == kg.graph
             matching_nodes == MatchingNodes(g, Lower(keyword))
             movie_nodes == IndexGet(kg.node_types, "movie", <<>>)
             scored == SelectSeq(movie_nodes, LAMBDA mv : _calculate_movie_score(g, mv, matching_nodes) > 0)
             ranked == Slice(SortedDesc(<<>>, MovieScores(g, scored, matching_nodes)), top_n)
         IN  [i \in 1..Len(ranked) |-> ranked[i].node]

Digit(c) == CHOOSE d \in 0..9 : Digits(d) = <<c>>

IsDigit(c) == \E d \in 0..9 : Digits(d) = <<c>>

RECURSIVE ParseInt(_)
\* int(s) of a string of decimal digits
ParseInt(s) == IF Len(s) = 1 THEN Digit(s[1]) ELSE 10 * ParseInt(SubSeq(s, 1, Len(s) - 1)) + Digit(s[Len(s)])

YearPrefixLen == 4
YearSpan == 10

\* int(str(year)[:4]) succeeds
YearParses(year) ==
    LET y == Prefix(year, YearPrefixLen) IN Len(y) > 0 /\ \A i \in 1..Len(y) : IsDigit(y[i])

\* KnowledgeGraph._calculate_year_similarity, in tenths: max(0, 1 - |y1 - y2| / 10)
_calculate_year_similarity(year1, year2) ==
    IF YearParses(year1) /\ YearParses(year2)
    THEN Max(0, YearSpan - Abs(ParseInt(Prefix(year1, YearPrefixLen)) - ParseInt(Prefix(year2, YearPrefixLen))))
    ELSE 0

\* combined_similarity as the fraction [num, den]:
\* jaccard * 0.6 + (1 - |rating difference| / 10) * 0.2 + year_similarity * 0.2
CombinedSimilarity(common, union, data, other) ==
    [num |-> 600 * common
             + union * 2 * (100 - Abs(Get(data, "rating", 0) - Get(other, "rating", 0)))
             + union * 20 * _calculate_year_similarity(Get(data, "year", <<"0">>), Get(other, "year", <<"0">>)),
     den |-> 1000 * union]

\* The movie the title resolves to is compared with itself too (the `continue` is missing).
find_similar_movies_with_self(kg, movie_title, top_n) ==
    IF ~kg.initialized THEN <<>>
    ELSE LET g == kg.graph
             movie_node == find_movie_by_title(kg, movie_title)
         IN  IF movie_node = NoNode THEN <<>>
             ELSE LET movie_features == Range(neighbors(g, movie_node))
                      movie_nodes == IndexGet(kg.node_types, "movie", <<>>)
                      others == SelectSeq(movie_nodes,
                                    LAMBDA o : movie_features \cap Range(neighbors(g, o)) # {})
                      similar_movies ==
                          [i \in 1..Len(others) |->
                              LET f == Range(neighbors(g, others[i]))
                                  s == CombinedSimilarity(Cardinality(movie_features \cap f),
                                                          Cardinality(movie_features \cup f),
                                                          g.attr[movie_node], g.attr[others[i]])
                              IN  [node |-> others[i], num |-> s.num, den |-> s.den]]
                      ranked == Slice(SortedDesc(<<>>, similar_movies), top_n)
                  IN  [i \in 1..Len(ranked) |-> ranked[i].node]

\* KnowledgeGraph.find_similar_movies
find_similar_movies(kg, movie_title, top_n) ==
    IF ~kg.initialized THEN <<>>
    ELSE LET g == kg.graph
             movie_node == find_movie_by_title(kg, movie_title)
         IN  IF movie_node = NoNode THEN <<>>
             ELSE LET movie_features == Range(neighbors(g, movie_node))
                      movie_nodes == IndexGet(kg.node_types, "movie", <<>>)
                      others == SelectSeq(movie_nodes,
                                    LAMBDA o : o # movie_node
                                               /\ movie_features \cap Range(neighbors(g, o)) # {})
                      similar_movies ==
                          [i \in 1..Len(others) |->
                              LET f == Range(neighbors(g, others[i]))
                                  s == CombinedSimilarity(Cardinality(movie_features \cap f),
                                                          Cardinality(movie_features \cup f),
                                                          g.attr[movie_node], g.attr[others[i]])
                              IN  [node |-> others[i], num |-> s.num, den |-> s.den]]
                      ranked == Slice(SortedDesc(<<>>, similar_movies), top_n)
                  IN  [i \in 1..Len(ranked) |-> ranked[i].node]

\* KnowledgeGraph.get_graph_info
get_graph_info(kg) ==
    IF ~kg.initialized THEN <<>>
    ELSE [total_nodes |-> Len(kg.graph.nodes),
          total_edges |-> Cardinality(DOMAIN kg.graph.edge),
          node_types |-> [t \in DOMAIN kg.node_types.bucket |-> Len(kg.node_types.bucket[t])],
          movie_count |-> Len(IndexGet(kg.node_types, "movie", <<>>)),
          genre_count |-> Len(IndexGet(kg.node_types, "genre", <<>>)),
          director_count |-> Len(IndexGet(kg.node_types, "director", <<>>)),
          actor_count |-> Len(IndexGet(kg.node_types, "actor", <<>>)),
          keyword_count |-> Len(IndexGet(kg.node_types, "keyword", <<>>)),
          company_count |-> Len(IndexGet(kg.node_types, "company", <<>>))]

(***************************************************************************)
(* KGDataProcessor.  A cell of a text column is a string or NaN; a cell of *)
(* a JSON column is NaN, the text '' or '[]', a text ast.literal_eval      *)
(* rejects, or a text it evaluates to a Python value.                      *)
(***************************************************************************)
\* float('nan') in a text column; no string has an element of several characters
NaN == <<"NaN">>

JsonNaN == [cell |-> "nan"]
JsonEmpty == [cell |-> "empty"]
JsonBrackets == [cell |-> "brackets"]
JsonInvalid == [cell |-> "invalid"]
JsonList(items) == [cell |-> "literal", is_list |-> TRUE, items |-> items]
JsonScalar == [cell |-> "literal", is_list |-> FALSE, items |-> <<>>]

\* an element of an evaluated list: a dict, or a value of another type
DictItem(d) == [is_dict |-> TRUE, dict |-> d]
OtherItem == [is_dict |-> FALSE, dict |-> <<>>]

\* KGDataProcessor._parse_json_list
_parse_json_list(json_str) ==
    IF json_str.cell \in {"nan", "empty", "brackets", "invalid"} THEN <<>>
    ELSE IF ~json_str.is_list THEN <<>>
    ELSE LET named == SelectSeq(json_str.items, LAMBDA item : item.is_dict /\ "name" \in DOMAIN item.dict)
         IN  [i \in 1..Len(named) |-> named[i].dict.name]

\* isinstance(person, dict) for an element of a parsed list: _parse_json_list returns
\* the names, which are strings
IsDictPerson(person) == FALSE

\* KGDataProcessor._extract_directors
_extract_directors(crew_list) ==
    LET kept == SelectSeq(crew_list,
                    LAMBDA person : /\ IsDictPerson(person)
                                    /\ Get(person, "job", <<>>) = <<"D", "i", "r", "e", "c", "t", "o", "r">>
                                    /\ Get(person, "name", <<>>) # <<>>)
    IN  [i \in 1..Len(kept) |-> kept[i].name]

RECURSIVE SplitFrom(_, _, _)
\* s.split(sep) for a one-character sep, `field` being the field read so far
SplitFrom(s, sep, field) ==
    IF s = <<>> THEN <<field>>
    ELSE IF Head(s) = sep THEN <<field>> \o SplitFrom(Tail(s), sep, <<>>)
    ELSE SplitFrom(Tail(s), sep, Append(field, Head(s)))

Split(s, sep) == SplitFrom(s, sep, <<>>)

\* KGDataProcessor._extract_year
_extract_year(date_str) ==
    IF date_str = NaN \/ date_str = <<>> THEN T_Unknown
    ELSE Split(date_str, "-")[1]

Whitespace == {" ", "\t", "\n"}

\* s.strip() = ''
IsBlank(s) == \A i \in 1..Len(s) : s[i] \in Whitespace

RECURSIVE Joined(_, _)
\* movies_df.merge(credits_df, left_on='id', right_on='movie_id', how='inner'): the
\* movie rows in order, each once per credits row of its id; the two title columns
\* become title_x and title_y
Joined(movies, credits) ==
    IF movies = <<>> THEN <<>>
    ELSE LET mv == Head(movies)
             matches == SelectSeq(credits, LAMBDA c : c.movie_id = mv.id)
         IN  [i \in 1..Len(matches) |->
                 [id |-> mv.id, movie_id |-> matches[i].movie_id,
                  title_x |-> mv.title, title_y |-> matches[i].title,
                  release_date |-> mv.release_date, genres |-> mv.genres, keywords |-> mv.keywords,
                  production_companies |-> mv.production_companies,
                  vote_average |-> mv.vote_average, popularity |-> mv.popularity,
                  vote_count |-> mv.vote_count, cast |-> matches[i].cast, crew |-> matches[i].crew]]
             \o Joined(Tail(movies), credits)

\* the columns _process_kg_features adds to a row
Featured(row) ==
    [genres_parsed |-> _parse_json_list(row.genres),
     keywords_parsed |-> _parse_json_list(row.keywords),
     cast_parsed |-> _parse_json_list(row.cast),
     crew_parsed |-> _parse_json_list(row.crew),
     production_companies_parsed |-> _parse_json_list(row.production_companies),
     directors |-> _extract_directors(_parse_json_list(row.crew)),
     year |-> _extract_year(row.release_date)] @@ row

\* KGDataProcessor._process_kg_features on a merged frame
_process_kg_features(df) ==
    SelectSeq([i \in 1..Len(df) |-> Featured(df[i])],
              LAMBDA row : row.title_x # NaN /\ ~IsBlank(row.title_x))

Csv(movies, credits) == [state |-> "csv", movies |-> movies, credits |-> credits]

\* KGDataProcessor.load_and_process_data: [is_none, ret, cache], `cache` being the
\* content of kg_processed_data.pkl afterwards and `source` the two CSV files
load_and_process_data(cache, source) ==
    IF cache.state # "missing"
    THEN IF IsPickle(cache)
         THEN [is_none |-> FALSE, ret |-> cache.pickle, cache |-> cache]
         ELSE [is_none |-> TRUE, ret |-> <<>>, cache |-> cache]
    ELSE IF source.state = "missing"
         THEN [is_none |-> TRUE, ret |-> <<>>, cache |-> cache]
         ELSE LET processed_df == _process_kg_features(Joined(source.movies, source.credits))
              IN  [is_none |-> FALSE, ret |-> processed_df, cache |-> Pickle(processed_df)]

(***************************************************************************)
(* KnowledgeGraphRecommender, the facade.  A recommender is                *)
(* [knowledge_graph, initialized]; a method that may touch it returns      *)
(* [ret, rec].  An optional integer is IntValue(n) or NoInt (None).        *)
(***************************************************************************)
IntValue(n) == [int |-> n]
NoInt == [py_none |-> TRUE]

\* KnowledgeGraphRecommender.__init__
NewRecommender == [knowledge_graph |-> NewKnowledgeGraph, initialized |-> FALSE]

\* int(s) succeeds, for the strings a node id is made of
IntParses(s) == Len(s) > 0 /\ \A i \in 1..Len(s) : IsDigit(s[i])

\* 'int(node.split('_')[1]) if '_' in node else None': [raised, ret]
NodeMovieId(node) ==
    IF ~\E i \in 1..Len(node) : node[i] = "_" THEN [raised |-> FALSE, ret |-> NoInt]
    ELSE IF ~IntParses(Split(node, "_")[2]) THEN [raised |-> TRUE, ret |-> NoInt]
    ELSE [raised |-> FALSE, ret |-> IntValue(ParseInt(Split(node, "_")[2]))]

DetailActorLimit == 5
DetailKeywordLimit == 5
DetailCompanyLimit == 3

\* score 1.0, in tenths
DefaultScore == 10

\* the fields every standardized record takes from movie_data
CommonFields(movie_data) ==
    [title |-> Get(movie_data, "title", T_Unknown),
     year |-> Get(movie_data, "year", T_Unknown),
     rating |-> Get(movie_data, "rating", 0),
     popularity |-> Get(movie_data, "popularity", 0),
     vote_count |-> Get(movie_data, "vote_count", 0)]

\* standardized_data of get_recommendation_details
RecommendationRecord(movie_id, movie_data) ==
    [movie_id |-> movie_id,
     genres |-> Get(movie_data, "genres", <<>>),
     directors |-> Get(movie_data, "directors", <<>>),
     actors |-> Prefix(Get(movie_data, "actors", <<>>), DetailActorLimit),
     keywords |-> Prefix(Get(movie_data, "keywords", <<>>), DetailKeywordLimit),
     companies |-> Prefix(Get(movie_data, "companies", <<>>), DetailCompanyLimit),
     type |-> "knowledge_graph_recommendation",
     score |-> DefaultScore] @@ CommonFields(movie_data)

\* standardized_data of the facade's search_movies: movie_data has no movie_id entry
\* unless the node carries one
SearchRecord(movie_data) ==
    [movie_id |-> IF "movie_id" \in DOMAIN movie_data /\ movie_data.movie_id # 0
                  THEN IntValue(movie_data.movie_id) ELSE NoInt,
     type |-> "knowledge_graph_search"] @@ CommonFields(movie_data)

\* standardized_data of the facade's get_movie_details
DetailsRecord(movie_id, movie_data) ==
    [movie_id |-> movie_id,
     genres |-> Get(movie_data, "genres", <<>>),
     directors |-> Get(movie_data, "directors", <<>>),
     actors |-> Get(movie_data, "actors", <<>>),
     keywords |-> Get(movie_data, "keywords", <<>>),
     companies |-> Get(movie_data, "companies", <<>>),
     type |-> "knowledge_graph_details"] @@ CommonFields(movie_data)

\* KnowledgeGraphRecommender.recommend_by_keyword
recommend_by_keyword(rec, keyword, top_n) ==
    IF ~rec.initialized THEN [ret |-> <<>>, rec |-> rec]
    ELSE [ret |-> find_movies_by_keyword(rec.knowledge_graph, keyword, top_n), rec |-> rec]

\* KnowledgeGraphRecommender.recommend_similar_movies
recommend_similar_movies(rec, movie_title, top_n) ==
    IF ~rec.initialized THEN [ret |-> <<>>, rec |-> rec]
    ELSE [ret |-> find_similar_movies(rec.knowledge_graph, movie_title, top_n), rec |-> rec]

RECURSIVE DetailsLoop(_, _, _)
\* the loop of get_recommendation_details: [raised, ret, kg]
DetailsLoop(kg, movie_ids, details) ==
    IF movie_ids = <<>> THEN [raised |-> FALSE, ret |-> details, kg |-> kg]
    ELSE LET d == get_movie_details(kg, Head(movie_ids))
             id == NodeMovieId(Head(movie_ids))
         IN  IF d.ret = NoDict THEN DetailsLoop(d.kg, Tail(movie_ids), details)
             ELSE IF id.raised THEN [raised |-> TRUE, ret |-> details, kg |-> d.kg]
             ELSE DetailsLoop(d.kg, Tail(movie_ids), Append(details, RecommendationRecord(id.ret, d.ret)))

\* KnowledgeGraphRecommender.get_recommendation_details
get_recommendation_details(rec, movie_ids) ==
    IF ~rec.initialized THEN [ret |-> <<>>, rec |-> rec]
    ELSE LET r == DetailsLoop(rec.knowledge_graph, movie_ids, <<>>)
         IN  [ret |-> IF r.raised THEN <<>> ELSE r.ret, rec |-> [rec EXCEPT !.knowledge_graph = r.kg]]

\* KnowledgeGraphRecommender.search_movies
facade_search_movies(rec, query, limit) ==
    IF ~rec.initialized THEN [ret |-> <<>>, rec |-> rec]
    ELSE LET r == search_movies(rec.knowledge_graph, query, limit)
         IN  [ret |-> [i \in 1..Len(r.ret) |-> SearchRecord(r.ret[i])],
              rec |-> [rec EXCEPT !.knowledge_graph = r.kg]]

\* KnowledgeGraphRecommender.get_movie_details
facade_get_movie_details(rec, movie_title) ==
    IF ~rec.initialized THEN [ret |-> NoDict, rec |-> rec]
    ELSE LET movie_node == find_movie_by_title(rec.knowledge_graph, movie_title)
             d == get_movie_details(rec.knowledge_graph, movie_node)
             id == NodeMovieId(movie_node)
         IN  IF movie_node = NoNode THEN [ret |-> NoDict, rec |-> rec]
             ELSE IF d.ret = NoDict \/ id.raised
                  THEN [ret |-> NoDict, rec |-> [rec EXCEPT !.knowledge_graph = d.kg]]
                  ELSE [ret |-> DetailsRecord(id.ret, d.ret), rec |-> [rec EXCEPT !.knowledge_graph = d.kg]]

\* KnowledgeGraphRecommender.get_system_info
get_system_info(rec) ==
    IF ~rec.initialized
    THEN [initialized |-> FALSE, error |-> "Knowledge Graph recommender not initialized"]
    ELSE [method |-> "Knowledge Graph-based Recommendation",
          initialized |-> TRUE,
          graph_statistics |-> get_graph_info(rec.knowledge_graph),
          features |-> <<"Multi-hop entity connections", "Semantic similarity",
                         "Genre, director, actor, keyword relationships",
                         "Company and production relationships",
                         "Temporal similarity (year-based)", "Combined relevance scoring">>,
          capabilities |-> <<"Entity-based search", "Similar movie recommendations",
                             "Multi-modal similarity (content + metadata)",
                             "Cross-domain connections (actor-director, etc.)">>]

\* KnowledgeGraphRecommender.get_random_movies.  With movies in the index the call
\* min(movie_nodes, n) compares an int with a list and raises TypeError, which the
\* method catches: random.sample is never reached.
get_random_movies(rec, n) ==
    IF ~rec.initialized THEN [ret |-> <<>>, rec |-> rec]
    ELSE IF IndexGet(rec.knowledge_graph.node_types, "movie", <<>>) = <<>> THEN [ret |-> <<>>, rec |-> rec]
    ELSE [ret |-> <<>>, rec |-> rec]

\* what initialize() did about kg_model.pkl: the outcome of load_graph and of save_graph
\* ("skipped" when not called) and the KnowledgeGraph after the load step
Steps(load, loaded, save) == [load |-> load, loaded |-> loaded, save |-> save]

\* A failed save makes initialize() give up with False (the result of save_graph decides).
initialize_save_required(rec, model, cache, source, io) ==
    LET exists == model.state # "missing"
        l == load_graph(rec.knowledge_graph, model)
        kg1 == IF exists THEN l.kg ELSE rec.knowledge_graph
        load == IF ~exists THEN "skipped" ELSE IF l.ret THEN "ok" ELSE "failed"
        p == load_and_process_data(cache, source)
        b == build_graph_from_data(kg1, p.ret)
        s == save_graph(b.kg, model, io)
    IN  IF exists /\ l.ret
        THEN [ret |-> TRUE, rec |-> [knowledge_graph |-> l.kg, initialized |-> TRUE],
              model |-> model, cache |-> cache, steps |-> Steps(load, kg1, "skipped")]
        ELSE IF p.is_none
        THEN [ret |-> FALSE, rec |-> [rec EXCEPT !.knowledge_graph = kg1], model |-> model, cache |-> p.cache,
              steps |-> Steps(load, kg1, "skipped")]
        ELSE IF b.raised
        THEN [ret |-> FALSE, rec |-> [rec EXCEPT !.knowledge_graph = b.kg], model |-> model, cache |-> p.cache,
              steps |-> Steps(load, kg1, "skipped")]
        ELSE IF ~s.ret
        THEN [ret |-> FALSE, rec |-> [rec EXCEPT !.knowledge_graph = b.kg], model |-> s.file, cache |-> p.cache,
              steps |-> Steps(load, kg1, "failed")]
        ELSE [ret |-> TRUE, rec |-> [knowledge_graph |-> b.kg, initialized |-> TRUE],
              model |-> s.file, cache |-> p.cache, steps |-> Steps(load, kg1, "ok")]

\* KnowledgeGraphRecommender.initialize: [ret, rec, model, cache, steps], `model` and
\* `cache` being the contents of kg_model.pkl and kg_processed_data.pkl afterwards and io
\* the outcome of the save
initialize(rec, model, cache, source, io) ==
    LET exists == model.state # "missing"
        l == load_graph(rec.knowledge_graph, model)
        kg1 == IF exists THEN l.kg ELSE rec.knowledge_graph
        load == IF ~exists THEN "skipped" ELSE IF l.ret THEN "ok" ELSE "failed"
        p == load_and_process_data(cache, source)
        b == build_graph_from_data(kg1, p.ret)
        s == save_graph(b.kg, model, io)
    IN  IF exists /\ l.ret
        THEN [ret |-> TRUE, rec |-> [knowledge_graph |-> l.kg, initialized |-> TRUE],
              model |-> model, cache |-> cache, steps |-> Steps(load, kg1, "skipped")]
        ELSE IF p.is_none
        THEN [ret |-> FALSE, rec |-> [rec EXCEPT !.knowledge_graph = kg1], model |-> model, cache |-> p.cache,
              steps |-> Steps(load, kg1, "skipped")]
        ELSE IF b.raised
        THEN [ret |-> FALSE, rec |-> [rec EXCEPT !.knowledge_graph = b.kg], model |-> model, cache |-> p.cache,
              steps |-> Steps(load, kg1, "skipped")]
        ELSE [ret |-> TRUE, rec |-> [knowledge_graph |-> b.kg, initialized |-> TRUE],
              model |-> s.file, cache |-> p.cache, steps |-> Steps(load, kg1, IF s.ret THEN "ok" ELSE "failed")]

(***************************************************************************)
(* State of the serving process                                            *)
(***************************************************************************)
Threads == {"t1", "t2"}

NoHistory == [runs |-> 0, first_failed |-> FALSE, late_run |-> FALSE]

NoLocals == [rec |-> None, late |-> FALSE]

(***************************************************************************)
(* The engine on its own: KnowledgeGraph objects are built, saved and      *)
(* loaded.  As in initialize(), a graph is loaded into a new object, built *)
(* in an object that is not initialized, and saved once built.             *)
(***************************************************************************)
Objs == {"a", "b"}

InitEngine ==
    /\ kgs = [o \in Objs |-> NewKnowledgeGraph]
    /\ model_file = Missing
    /\ last = [op |-> "init"]
    /\ saved = [valid |-> FALSE]
    /\ kg_recommender = None
    /\ recs = <<>>
    /\ pc = [t \in Threads |-> "idle"]
    /\ local = [t \in Threads |-> NoLocals]
    /\ csv_files = Missing
    /\ processed_data_file = Missing
    /\ hist = NoHistory

Build(o, df) ==
    /\ \A p \in Objs : ~kgs[p].initialized
    /\ LET r == build_graph_from_data(kgs[o], df)
       IN  /\ kgs' = [kgs EXCEPT ![o] = r.kg]
           /\ last' = [op |-> "build", obj |-> o, df |-> df, raised |-> r.raised, ret |-> r.ret]
    /\ UNCHANGED <<model_file, saved, process>>

Save(o, io) ==
    /\ kgs[o].initialized
    /\ LET r == save_graph(kgs[o], model_file, io)
       IN  /\ model_file' = r.file
           /\ last' = [op |-> "save", obj |-> o, io |-> io, ret |-> r.ret, before |-> model_file]
           /\ saved' = IF r.ret THEN [valid |-> TRUE, kg |-> kgs[o]] ELSE saved
    /\ UNCHANGED <<kgs, process>>

Load(o) ==
    /\ kgs[o] = NewKnowledgeGraph
    /\ LET r == load_graph(kgs[o], model_file)
       IN  /\ kgs' = [kgs EXCEPT ![o] = r.kg]
           /\ last' = [op |-> "load", obj |-> o, ret |-> r.ret]
    /\ UNCHANGED <<model_file, saved, process>>

NextEngine ==
    \/ \E o \in Objs, df \in DataFrames : Build(o, df)
    \/ \E o \in Objs, io \in SaveOutcomes : Save(o, io)
    \/ \E o \in Objs : Load(o)

SpecEngine == InitEngine /\ [][NextEngine]_vars

(***************************************************************************)
(* Properties of the engine (SpecEngine)                                   *)
(***************************************************************************)
TypeOf(g, n) == Get(g.attr[n], "type", "unknown")

MovieNodes(g) == {n \in DOMAIN g.attr : TypeOf(g, n) = "movie"}

\* the edges of relation rel at node m
EdgesOf(g, m, rel) == {e \in DOMAIN g.edge : m \in e /\ Get(g.edge[e], "relation", None) = rel}

FanOutBounded(g) ==
    \A m \in MovieNodes(g) :
        \A i \in 1..Len(Categories) :
            Cardinality(EdgesOf(g, m, Categories[i].relation)) <= Categories[i].limit

UniqueIds(df) == \A i, j \in 1..Len(df) : df[i].id = df[j].id => i = j

BuiltNow == last.op = "build" /\ ~last.raised

Occurrences(s, x) == Cardinality({i \in 1..Len(s) : s[i] = x})

IndexConsistent(kg) ==
    LET g == kg.graph
        nt == kg.node_types
    IN  /\ Range(nt.keys) = DOMAIN nt.bucket
        /\ \A t \in DOMAIN nt.bucket : Occurrences(nt.keys, t) = 1
        /\ \A n \in Range(g.nodes) :
              \A t \in (DOMAIN nt.bucket) \cup {TypeOf(g, n)} :
                  Occurrences(IndexGet(nt, t, <<>>), n) = (IF t = TypeOf(g, n) THEN 1 ELSE 0)
        /\ \A t \in DOMAIN nt.bucket : Range(nt.bucket[t]) \subseteq Range(g.nodes)

\* C2: after every successful build_graph_from_data and every successful load_graph,
\* each graph node is exactly once in exactly one bucket of the type index, the bucket
\* of its type attribute, and every bucket entry is a node of the graph.
C2_IndexConsistent ==
    ((last.op = "build" /\ ~last.raised) \/ (last.op = "load" /\ last.ret))
        => IndexConsistent(kgs[last.obj])

\* a successful load of a graph that has nodes of all six types
C2_Witness ==
    /\ last.op = "load" /\ last.ret
    /\ {"movie", "genre", "director", "actor", "keyword", "company"}
          \subseteq {TypeOf(kgs[last.obj].graph, n) : n \in Range(kgs[last.obj].graph.nodes)}

\* the relation label that belongs to an entity type
RelationOfType(t) ==
    CASE t = "genre" -> "has_genre"
      [] t = "director" -> "directed_by"
      [] t = "actor" -> "starring"
      [] t = "keyword" -> "has_keyword"
      [] t = "company" -> "produced_by"
      [] OTHER -> None

EdgesBipartite(g) ==
    \A e \in DOMAIN g.edge :
        /\ e \subseteq DOMAIN g.attr
        /\ \E m \in e, x \in e :
              /\ e = {m, x}
              /\ TypeOf(g, m) = "movie"
              /\ TypeOf(g, x) \in {"genre", "director", "actor", "keyword", "company"}
              /\ g.edge[e] = [relation |-> RelationOfType(TypeOf(g, x))]
              /\ \E i \in 1..Len(g.adj[m]) : g.adj[m][i] = x
              /\ \E i \in 1..Len(g.adj[x]) : g.adj[x][i] = m

\* C3: in every built graph each edge joins one movie node and one non-movie entity
\* node, and its relation label is the one of the entity's type.
C3_EdgesMovieToEntity == BuiltNow => EdgesBipartite(kgs[last.obj].graph)

\* a built graph that has an edge of each of the five relations
C3_Witness ==
    /\ BuiltNow
    /\ \A i \in 1..Len(Categories) :
          \E e \in DOMAIN kgs[last.obj].graph.edge :
              kgs[last.obj].graph.edge[e].relation = Categories[i].relation

\* the last row of df with the identifier id
LastRowWithId(df, id) ==
    df[CHOOSE i \in 1..Len(df) : df[i].id = id /\ \A j \in 1..Len(df) : df[j].id = id => j <= i]

\* C4: after a build, for every input row there is exactly one movie node keyed by the
\* row's identifier, and its title, year, rating, popularity and vote_count are those
\* of the last row with that identifier.
C4_MovieNodePerRow ==
    BuiltNow =>
        \A i \in 1..Len(last.df) :
            LET g == kgs[last.obj].graph
                n == MovieNode(last.df[i].id)
                row == LastRowWithId(last.df, last.df[i].id)
            IN  /\ Occurrences(g.nodes, n) = 1
                /\ n \in DOMAIN g.attr
                /\ g.attr[n] = [type |-> "movie", title |-> row.title_x, year |-> row.year,
                                rating |-> row.vote_average, popularity |-> row.popularity,
                                vote_count |-> row.vote_count]

\* a build from rows in which an identifier repeats with other attribute values
C4_Witness ==
    /\ BuiltNow
    /\ \E i, j \in 1..Len(last.df) :
          /\ i < j
          /\ last.df[i].id = last.df[j].id
          /\ last.df[i].title_x # last.df[j].title_x
          /\ last.df[i].vote_average # last.df[j].vote_average

\* C5: a graph loaded from the blob of a successful save_graph has the node set, node
\* attributes, edges with their relation labels, type index (buckets and their order)
\* and initialized flag of the KnowledgeGraph that was saved.
C5_RoundTrip ==
    (last.op = "load" /\ last.ret) => (saved.valid /\ kgs[last.obj] = saved.kg)

\* a successful load, into a new object, of a saved graph with two movies
C5_Witness ==
    /\ last.op = "load" /\ last.ret
    /\ \E o \in Objs : o # last.obj /\ kgs[o] = kgs[last.obj]
    /\ Cardinality(MovieNodes(kgs[last.obj].graph)) >= 2
    /\ DOMAIN kgs[last.obj].graph.edge # {}

\* C10 as stated: when save_graph fails while a valid blob exists at the path, the
\* path still holds that blob afterwards.
C10_FailedSaveKeepsBlob ==
    (last.op = "save" /\ ~last.ret /\ IsPickle(last.before)) => model_file = last.before

(***************************************************************************)
(* Source datasets                                                         *)
(***************************************************************************)
T_heat == <<"h", "e", "a", "t">>
T_al == <<"a", "l">>
T_zz == <<"z", "z">>
T_Director == <<"D", "i", "r", "e", "c", "t", "o", "r">>
T_Writer == <<"W", "r", "i", "t", "e", "r">>
T_Date1995 == <<"1", "9", "9", "5", "-", "1", "2", "-", "1", "5">>
T_Blank == <<" ", " ">>
T_movie_1 == <<"m", "o", "v", "i", "e", "_", "1">>
T_movie_9 == <<"m", "o", "v", "i", "e", "_", "9">>
T_genre_Action == <<"g", "e", "n", "r", "e", "_", "A", "c", "t", "i", "o", "n">>

Names(names) == JsonList([i \in 1..Len(names) |-> DictItem([name |-> names[i]])])

Movie1 ==
    [id |-> 1, title |-> T_Heat, release_date |-> T_Date1995,
     genres |-> JsonList(<<DictItem([id |-> 28, name |-> T_Action]), DictItem([name |-> T_Crime])>>),
     keywords |-> Names(<<T_heist>>), production_companies |-> Names(<<T_WB>>),
     vote_average |-> 82, popularity |-> 17, vote_count |-> 1200]

Movie2 ==
    [id |-> 2, title |-> T_Up, release_date |-> NaN,
     genres |-> JsonList(<<OtherItem, DictItem([id |-> 7]), DictItem([name |-> T_Action])>>),
     keywords |-> JsonInvalid, production_companies |-> JsonNaN,
     vote_average |-> 64, popularity |-> 120, vote_count |-> 30]

Movie3 ==
    [id |-> 3, title |-> T_Blank, release_date |-> T_1999,
     genres |-> Names(<<T_Drama>>), keywords |-> JsonEmpty, production_companies |-> JsonEmpty,
     vote_average |-> 50, popularity |-> 1, vote_count |-> 2]

Movie4 ==
    [id |-> 13, title |-> T_Cold, release_date |-> <<>>,
     genres |-> JsonBrackets, keywords |-> JsonEmpty, production_companies |-> JsonScalar,
     vote_average |-> 0, popularity |-> 0, vote_count |-> 0]

Credits1 ==
    [movie_id |-> 1, title |-> T_Heat, cast |-> Names(<<T_Al, T_Bo>>),
     crew |-> JsonList(<<DictItem([name |-> T_Cy, job |-> T_Director]),
                         DictItem([name |-> T_Di, job |-> T_Writer])>>)]

Credits1b == [movie_id |-> 1, title |-> T_Heat, cast |-> Names(<<T_Flo>>), crew |-> JsonNaN]

Credits2 == [movie_id |-> 2, title |-> T_Up, cast |-> Names(<<T_Al>>), crew |-> JsonBrackets]

Credits3 == [movie_id |-> 3, title |-> T_Blank, cast |-> Names(<<T_Ed>>), crew |-> JsonEmpty]

Credits4 == [movie_id |-> 13, title |-> T_Cold, cast |-> JsonEmpty, crew |-> JsonEmpty]

\* three movies, two of them sharing a genre and an actor
CsvA == Csv(<<Movie1, Movie2, Movie4>>, <<Credits1, Credits2, Credits4>>)

\* a movie with two credits rows, and a row the title filter drops
CsvB == Csv(<<Movie1, Movie3>>, <<Credits1, Credits1b, Credits3>>)

\* no row passes the title filter: the processed frame is empty
CsvC == Csv(<<Movie3>>, <<Credits3>>)

CsvSets == {CsvA, CsvB, CsvC}

(***************************************************************************)
(* Requests of the HTTP layer.  A request calls get_kg_recommender() and   *)
(* then a method of the recommender it returned, or get_graph_info() of    *)
(* its knowledge_graph (/graph-stats).  Threads interleave at the          *)
(* reads and writes of the global kg_recommender; one initialize() call    *)
(* is taken as a single step.                                              *)
(***************************************************************************)
Terms == {T_heat, T_al, T_zz}

TopNs == {1, 2}

IdLists == {<<>>, <<T_movie_1, T_movie_9>>, <<T_genre_Action>>}

FacadeQueries ==
    {[op |-> "recommend_by_keyword", keyword |-> k, top_n |-> n] : k \in Terms, n \in TopNs}
    \cup {[op |-> "recommend_similar_movies", movie_title |-> k, top_n |-> n] : k \in Terms, n \in TopNs}
    \cup {[op |-> "get_recommendation_details", movie_ids |-> ids] : ids \in IdLists}
    \cup {[op |-> "facade_search_movies", query |-> k, limit |-> n] : k \in Terms, n \in TopNs}
    \cup {[op |-> "facade_get_movie_details", movie_title |-> k] : k \in Terms}
    \cup {[op |-> "get_system_info"]}
    \cup {[op |-> "get_random_movies", n |-> n] : n \in TopNs}

\* the call q on the recommender rec: [ret, rec]
FacadeCall(rec, q) ==
    CASE q.op = "recommend_by_keyword" -> recommend_by_keyword(rec, q.keyword, q.top_n)
      [] q.op = "recommend_similar_movies" -> recommend_similar_movies(rec, q.movie_title, q.top_n)
      [] q.op = "get_recommendation_details" -> get_recommendation_details(rec, q.movie_ids)
      [] q.op = "facade_search_movies" -> facade_search_movies(rec, q.query, q.limit)
      [] q.op = "facade_get_movie_details" -> facade_get_movie_details(rec, q.movie_title)
      [] q.op = "get_system_info" -> [ret |-> get_system_info(rec), rec |-> rec]
      [] q.op = "get_random_movies" -> get_random_movies(rec, q.n)

\* the KnowledgeGraph an earlier version of the program had built
EarlierGraph == build_graph_from_data(NewKnowledgeGraph, <<Row4>>).kg

\* the entries of the blob that the earlier versions did not write
EarlierBlobsLack == {"node_types", "initialized"}

\* dict d without the key k
Without(d, k) == [x \in DOMAIN d \ {k} |-> d[x]]

\* the blob of EarlierGraph without the entry `missing`
EarlierBlob(missing) ==
    Pickle(Without([graph |-> EarlierGraph.graph, node_types |-> PlainDict(EarlierGraph.node_types),
                    initialized |-> TRUE],
                   missing))

\* the recommender object named r
Rec(r) == [knowledge_graph |-> kgs[r], initialized |-> recs[r].initialized]

Init ==
    /\ kgs = <<>>
    /\ recs = <<>>
    /\ kg_recommender = None
    /\ pc = [t \in Threads |-> "idle"]
    /\ local = [t \in Threads |-> NoLocals]
    /\ csv_files \in {Missing} \cup CsvSets
    /\ processed_data_file = Missing
    /\ model_file = Missing
    /\ last = [op |-> "init"]
    /\ saved = [valid |-> FALSE]
    /\ hist = NoHistory

\* get_kg_recommender, line 22: the test of the global
Enter(t) ==
    /\ pc[t] = "idle"
    /\ pc' = [pc EXCEPT ![t] = IF kg_recommender = None THEN "create" ELSE "return"]
    /\ local' = [local EXCEPT ![t] = [rec |-> None, late |-> hist.first_failed]]
    /\ last' = [op |-> "get_kg_recommender"]
    /\ UNCHANGED <<kgs, recs, kg_recommender, csv_files, processed_data_file, model_file, saved, hist>>

\* get_kg_recommender, line 28: a new recommender is assigned to the global
Create(t) ==
    /\ pc[t] = "create"
    /\ kgs' = (t :> NewRecommender.knowledge_graph) @@ kgs
    /\ recs' = (t :> [initialized |-> NewRecommender.initialized]) @@ recs
    /\ kg_recommender' = t
    /\ pc' = [pc EXCEPT ![t] = "initialize"]
    /\ last' = [op |-> "KnowledgeGraphRecommender"]
    /\ UNCHANGED <<local, csv_files, processed_data_file, model_file, saved, hist>>

\* get_kg_recommender, lines 29-32: initialize() on the recommender the global names
\* now, and the exception raised if it returns False
Initialize(t, io) ==
    /\ pc[t] = "initialize"
    /\ \E r \in {kg_recommender}, res \in {initialize(Rec(kg_recommender), model_file, processed_data_file, csv_files, io)} :
           /\ kgs' = [kgs EXCEPT ![r] = res.rec.knowledge_graph]
           /\ recs' = [recs EXCEPT ![r] = [initialized |-> res.rec.initialized]]
           /\ model_file' = res.model
           /\ processed_data_file' = res.cache
           /\ hist' = [runs |-> hist.runs + 1,
                       first_failed |-> IF hist.runs = 0 THEN ~res.ret ELSE hist.first_failed,
                       late_run |-> hist.late_run \/ local[t].late]
           /\ pc' = [pc EXCEPT ![t] = IF res.ret THEN "return" ELSE "idle"]
           /\ last' = [op |-> "initialize", ret |-> res.ret, rec |-> r, before |-> kgs[r],
                       load |-> res.steps.load, loaded |-> res.steps.loaded, save |-> res.steps.save]
    /\ UNCHANGED <<kg_recommender, local, csv_files, saved>>

\* get_kg_recommender, line 33: the global is read again and returned
Return(t) ==
    /\ pc[t] = "return"
    /\ local' = [local EXCEPT ![t].rec = kg_recommender]
    /\ pc' = [pc EXCEPT ![t] = "have"]
    /\ last' = [op |-> "return"]
    /\ UNCHANGED <<kgs, recs, kg_recommender, csv_files, processed_data_file, model_file, saved, hist>>

\* a method of the recommender the request obtained
FacadeQuery(t, q) ==
    /\ pc[t] = "have"
    /\ \E r \in {local[t].rec}, res \in {FacadeCall(Rec(local[t].rec), q)} :
           /\ kgs' = [kgs EXCEPT ![r] = res.rec.knowledge_graph]
           /\ recs' = [recs EXCEPT ![r] = [initialized |-> res.rec.initialized]]
           /\ last' = [op |-> q.op, args |-> q, initialized |-> recs[r].initialized, ret |-> res.ret]
    /\ pc' = [pc EXCEPT ![t] = "idle"]
    /\ UNCHANGED <<kg_recommender, local, csv_files, processed_data_file, model_file, saved, hist>>

\* graph_statistics: rec.knowledge_graph.get_graph_info()
GraphStatistics(t) ==
    /\ pc[t] = "have"
    /\ \E r \in {local[t].rec} :
           last' = [op |-> "get_graph_info", initialized |-> kgs[r].initialized,
                    ret |-> get_graph_info(kgs[r])]
    /\ pc' = [pc EXCEPT ![t] = "idle"]
    /\ UNCHANGED <<kgs, recs, kg_recommender, local, csv_files, processed_data_file, model_file, saved, hist>>

\* the operator puts the source datasets into the data directory
InstallSource(csv) ==
    /\ csv_files = Missing
    /\ csv_files' = csv
    /\ last' = [op |-> "install"]
    /\ UNCHANGED <<kgs, recs, kg_recommender, pc, local, processed_data_file, model_file, saved, hist>>

\* a kg_model.pkl written by an earlier version of the program, whose blobs lack the
\* entry `missing`, is in the data directory when this version is deployed
InstallModel(missing) ==
    /\ kg_recommender = None
    /\ model_file = Missing
    /\ model_file' = EarlierBlob(missing)
    /\ last' = [op |-> "install_model"]
    /\ UNCHANGED <<kgs, recs, kg_recommender, pc, local, csv_files, processed_data_file, saved, hist>>

\* the process ends and a new one starts: the module is imported again, the files stay
Restart ==
    /\ kg_recommender # None
    /\ kgs' = <<>>
    /\ recs' = <<>>
    /\ kg_recommender' = None
    /\ pc' = [t \in Threads |-> "idle"]
    /\ local' = [t \in Threads |-> NoLocals]
    /\ hist' = NoHistory
    /\ last' = [op |-> "restart"]
    /\ UNCHANGED <<csv_files, processed_data_file, model_file, saved>>

Next ==
    \/ \E t \in Threads : Enter(t)
    \/ \E t \in Threads : Create(t)
    \/ \E t \in Threads, io \in SaveOutcomes : Initialize(t, io)
    \/ \E t \in Threads : Return(t)
    \/ \E t \in Threads, q \in FacadeQueries : FacadeQuery(t, q)
    \/ \E t \in Threads : GraphStatistics(t)
    \/ \E csv \in CsvSets : InstallSource(csv)
    \/ \E missing \in EarlierBlobsLack : InstallModel(missing)
    \/ Restart

Spec == Init /\ [][Next]_vars

(***************************************************************************)
(* Properties of the serving process (Spec)                                *)
(***************************************************************************)
\* C6: when several first requests arrive concurrently, at most one
\* KnowledgeGraphRecommender.initialize run occurs in the process.
C6_AtMostOneInitialize == hist.runs <= 1

\* a recommender initialized from the datasets CsvA
ReferenceRec == initialize(NewRecommender, Missing, Missing, CsvA, "ok").rec

\* what a query returns from an initialized recommender when it finds nothing
NothingFound(op) ==
    CASE op = "recommend_by_keyword" -> recommend_by_keyword(ReferenceRec, T_zz, 1).ret
      [] op = "recommend_similar_movies" -> recommend_similar_movies(ReferenceRec, T_zz, 1).ret
      [] op = "get_recommendation_details" -> get_recommendation_details(ReferenceRec, <<T_movie_9>>).ret
      [] op = "facade_search_movies" -> facade_search_movies(ReferenceRec, T_zz, 1).ret
      [] op = "facade_get_movie_details" -> facade_get_movie_details(ReferenceRec, T_zz).ret
      [] op = "get_random_movies" -> get_random_movies(ReferenceRec, 1).ret

DataQueryOps ==
    {"recommend_by_keyword", "recommend_similar_movies", "get_recommendation_details",
     "facade_search_movies", "facade_get_movie_details", "get_random_movies"}

\* C7: a keyword, similar-movie, search, detail or random query issued through the
\* facade on a recommender that is not initialized returns a result that differs
\* from the result of a successful query that found nothing.
C7_NotInitializedIsTagged ==
    (last.op \in DataQueryOps /\ ~last.initialized) => last.ret # NothingFound(last.op)

\* the result of the last facade query says that the recommender is not initialized
ReportsNotInitialized ==
    IF last.op = "get_system_info" THEN ~last.ret.initialized
    ELSE last.ret # NothingFound(last.op)

\* C8: after the first initialization attempt has failed, no call of
\* get_kg_recommender made later runs initialize, the recommender of the process
\* stays uninitialized, and every facade query reports not-initialized.
C8_FailedInitializationIsFinal ==
    hist.first_failed =>
        /\ ~hist.late_run
        /\ kg_recommender # None => ~recs[kg_recommender].initialized
        /\ last.op \in DataQueryOps \cup {"get_system_info"} => ReportsNotInitialized

\* a step in which a request calls a method of the recommender or of its graph
QueryStep ==
    \E t \in Threads : pc[t] = "have" /\ pc'[t] = "idle" /\ last'.op # "restart"

\* C9: every query operation leaves the nodes, node attributes and edges of the graph,
\* the type index and the initialized flags as they were.
C9_QueriesLeaveGraphUnchanged == [][QueryStep => (kgs' = kgs /\ recs' = recs)]_vars

\* a query has returned the detail records of two movies of an initialized graph
C9_Witness ==
    /\ last.op = "facade_search_movies"
    /\ last.initialized
    /\ Len(last.ret) = 2
    /\ \E r \in DOMAIN kgs : kgs[r].initialized /\ Len(kgs[r].graph.nodes) > 0

(***************************************************************************)
(* The query methods on their own: one KnowledgeGraph is built from a      *)
(* table of normalized rows and then queried, directly and through a       *)
(* recommender that holds it.                                              *)
(***************************************************************************)
T_A == <<"A">>
T_B == <<"B">>
T_C == <<"C">>
T_2010 == <<"2", "0", "1", "0">>
T_2012 == <<"2", "0", "1", "2">>
T_1990 == <<"1", "9", "9", "0">>
T_action == <<"a", "c", "t", "i", "o", "n">>
T_albo == <<"a", "l", " ", "b", "o">>
T_movie_2 == <<"m", "o", "v", "i", "e", "_", "2">>
T_movie_3 == <<"m", "o", "v", "i", "e", "_", "3">>

\* a normalized row that has a title, a year, a rating and genres only
PlainRow(id, title, year, rating, genres) ==
    [id |-> id, title_x |-> title, year |-> year, vote_average |-> rating,
     popularity |-> 0, vote_count |-> 0,
     genres_parsed |-> genres, directors |-> <<>>, cast_parsed |-> <<>>,
     keywords_parsed |-> <<>>, production_companies_parsed |-> <<>>]

\* movies A, B and C: A and B share the genre Action, C has the genre Drama
FrameABC ==
    <<PlainRow(1, T_A, T_2010, 80, <<T_Action>>),
      PlainRow(2, T_B, T_2012, 70, <<T_Action>>),
      PlainRow(3, T_C, T_1990, 90, <<T_Drama>>)>>

QueryFrames == DataFrames \cup {FrameABC}

KeywordTerms == {T_heat, T_al, T_war, T_action, T_albo, T_zz, <<>>, T_A}

TitleTerms == {T_heat, T_zz, <<>>, T_A}

QueryTopNs == {-1, 1, 2}

QueryLimits == {0, 1, 2}

NodeIds == {T_movie_1, T_movie_9, T_genre_Action}

EngineQueries ==
    {[op |-> "find_movies_by_keyword", keyword |-> k, top_n |-> n] : k \in KeywordTerms, n \in QueryTopNs}
    \cup {[op |-> "find_similar_movies", movie_title |-> k, top_n |-> n] : k \in TitleTerms, n \in QueryTopNs}
    \cup {[op |-> "find_movie_by_title", title |-> k] : k \in TitleTerms}
    \cup {[op |-> "search_movies", query |-> k, limit |-> n] : k \in TitleTerms, n \in QueryLimits}
    \cup {[op |-> "get_movie_details", movie_id |-> id] : id \in NodeIds}
    \cup {[op |-> "get_graph_info"]}
    \cup {[op |-> "facade_get_movie_details", movie_title |-> k] : k \in TitleTerms}
    \cup {[op |-> "get_recommendation_details", movie_ids |-> <<T_movie_1, T_movie_9>>]}

\* the call q on the KnowledgeGraph kg, or on a recommender that holds kg: [ret, kg]
EngineCall(kg, q) ==
    CASE q.op = "find_movies_by_keyword" -> [ret |-> find_movies_by_keyword(kg, q.keyword, q.top_n), kg |-> kg]
      [] q.op = "find_similar_movies" -> [ret |-> find_similar_movies(kg, q.movie_title, q.top_n), kg |-> kg]
      [] q.op = "find_movie_by_title" -> [ret |-> find_movie_by_title(kg, q.title), kg |-> kg]
      [] q.op = "search_movies" -> search_movies(kg, q.query, q.limit)
      [] q.op = "get_movie_details" -> get_movie_details(kg, q.movie_id)
      [] q.op = "get_graph_info" -> [ret |-> get_graph_info(kg), kg |-> kg]
      [] q.op = "facade_get_movie_details" ->
            LET r == facade_get_movie_details([knowledge_graph |-> kg, initialized |-> kg.initialized],
                                              q.movie_title)
            IN  [ret |-> r.ret, kg |-> r.rec.knowledge_graph]
      [] q.op = "get_recommendation_details" ->
            LET r == get_recommendation_details([knowledge_graph |-> kg, initialized |-> kg.initialized],
                                                q.movie_ids)
            IN  [ret |-> r.ret, kg |-> r.rec.knowledge_graph]

QueryObj == CHOOSE o \in Objs : TRUE

Query(o, q) ==
    /\ \E res \in {EngineCall(kgs[o], q)} :
           /\ kgs' = [kgs EXCEPT ![o] = res.kg]
           /\ last' = [op |-> q.op, obj |-> o, args |-> q, ret |-> res.ret]
    /\ UNCHANGED <<model_file, saved, process>>

NextQuery ==
    \/ \E df \in QueryFrames : Build(QueryObj, df)
    \/ \E q \in EngineQueries : Query(QueryObj, q)

SpecQuery == InitEngine /\ [][NextQuery]_vars

(***************************************************************************)
(* Properties of the queries (SpecQuery)                                   *)
(***************************************************************************)
Queried(op) == last.op = op /\ "args" \in DOMAIN last

\* the graph of the KnowledgeGraph the last query was made on
QueriedGraph == kgs[last.obj].graph

\* the term is in s, case ignored
TermIn(term, s) == Contains(Lower(term), Lower(s))

\* the neighbours of m of type t whose name contains the term
MatchingNeighbors(g, m, t, term) ==
    {x \in Range(neighbors(g, m)) : TypeOf(g, x) = t /\ TermIn(term, Get(g.attr[x], "name", <<>>))}

\* the relevance score find_movies_by_keyword gives the movie m for the term
Relevance(g, m, term) == _calculate_movie_score(g, m, MatchingNodes(g, Lower(term)))

\* the final score find_movies_by_keyword sorts by
Final(g, m, term) == FinalScore(Relevance(g, m, term), g.attr[m])

\* the place of node n in the graph's node order
Place(g, n) == CHOOSE i \in 1..Len(g.nodes) : g.nodes[i] = n

\* C13: every movie find_movies_by_keyword returns, for any graph, term and top_n, has
\* a relevance score above 0: its own title contains the term, or a director, genre,
\* actor or keyword neighbour of it has a name that contains the term.
C13_ReturnedMoviesAreRelevant ==
    Queried("find_movies_by_keyword") =>
        \A i \in 1..Len(last.ret) :
            LET m == last.ret[i]
                term == last.args.keyword
            IN  /\ Relevance(QueriedGraph, m, term) > 0
                /\ \/ TermIn(term, Get(QueriedGraph.attr[m], "title", <<>>))
                   \/ \E t \in {"director", "genre", "actor", "keyword"} :
                          MatchingNeighbors(QueriedGraph, m, t, term) # {}

\* a movie is returned for a neighbour only, and another movie of the graph is left out
\* although top_n has room for it
C13_Witness ==
    /\ Queried("find_movies_by_keyword")
    /\ last.args.top_n = 2
    /\ Len(last.ret) = 1
    /\ ~TermIn(last.args.keyword, Get(QueriedGraph.attr[last.ret[1]], "title", <<>>))
    /\ Cardinality(MovieNodes(QueriedGraph)) = 2

\* C14: for top_n >= 1 find_movies_by_keyword returns at most top_n movie ids, none
\* twice, in non-increasing order of final score, movies of equal final score in the
\* order their nodes were inserted, and no movie of relevance above 0 that is left out
\* has a higher final score than a returned one.
C14_RankedByFinalScore ==
    (Queried("find_movies_by_keyword") /\ last.args.top_n >= 1) =>
        LET g == QueriedGraph
            term == last.args.keyword
            ret == last.ret
        IN  /\ Len(ret) <= last.args.top_n
            /\ \A i, j \in 1..Len(ret) : ret[i] = ret[j] => i = j
            /\ \A i, j \in 1..Len(ret) :
                   i < j => /\ Final(g, ret[i], term) >= Final(g, ret[j], term)
                            /\ Final(g, ret[i], term) = Final(g, ret[j], term)
                                   => Place(g, ret[i]) < Place(g, ret[j])
            /\ \A m \in MovieNodes(g) \ Range(ret) :
                   Relevance(g, m, term) > 0 =>
                       \A i \in 1..Len(ret) : Final(g, m, term) <= Final(g, ret[i], term)

\* two movies are returned, the one inserted later first
C14_Witness ==
    /\ Queried("find_movies_by_keyword")
    /\ Len(last.ret) = 2
    /\ Place(QueriedGraph, last.ret[1]) > Place(QueriedGraph, last.ret[2])

\* two movies of equal final score are returned
C14_WitnessTie ==
    /\ Queried("find_movies_by_keyword")
    /\ Len(last.ret) = 2
    /\ Final(QueriedGraph, last.ret[1], last.args.keyword) = Final(QueriedGraph, last.ret[2], last.args.keyword)

\* a movie of relevance above 0 is cut off by top_n
C14_WitnessCut ==
    /\ Queried("find_movies_by_keyword")
    /\ last.args.top_n = 1
    /\ \E m \in MovieNodes(QueriedGraph) \ Range(last.ret) : Relevance(QueriedGraph, m, last.args.keyword) > 0

\* the relevance score as the sum it is described as, in tenths
RelevanceSum(g, m, term) ==
    (IF TermIn(term, Get(g.attr[m], "title", <<>>)) THEN 20 ELSE 0)
    + 15 * Cardinality(MatchingNeighbors(g, m, "director", term))
    + 10 * Cardinality(MatchingNeighbors(g, m, "genre", term))
    + 8 * Cardinality(MatchingNeighbors(g, m, "actor", term))
    + 6 * Cardinality(MatchingNeighbors(g, m, "keyword", term))

\* the term matches one node only, and it is a director
OnlyADirectorMatches(g, term) ==
    LET matching_nodes == MatchingNodes(g, Lower(term))
    IN  Len(matching_nodes) = 1 /\ TypeOf(g, matching_nodes[1]) = "director"

\* C15: the relevance score of a movie for a term is 2.0 if the movie's title contains
\* the term, plus 1.5 for each matching director neighbour, 1.0 for each matching genre
\* neighbour, 0.8 for each matching actor neighbour and 0.6 for each matching keyword
\* neighbour; when the term matches only a director node, the movies attached to that
\* node are all returned (top_n leaving room for them), each with relevance 1.5.
C15_RelevanceIsWeightedSum ==
    Queried("find_movies_by_keyword") =>
        LET g == QueriedGraph
            term == last.args.keyword
        IN  /\ \A m \in MovieNodes(g) : Relevance(g, m, term) = RelevanceSum(g, m, term)
            /\ OnlyADirectorMatches(g, term) =>
                   LET attached == {m \in MovieNodes(g) : MatchingNodes(g, Lower(term))[1] \in Range(neighbors(g, m))}
                   IN  /\ \A m \in attached : Relevance(g, m, term) = 15
                       /\ last.args.top_n >= Cardinality(attached) => Range(last.ret) = attached

\* the term matches one director node only, attached to two movies, and both are returned
C15_Witness ==
    /\ Queried("find_movies_by_keyword")
    /\ OnlyADirectorMatches(QueriedGraph, last.args.keyword)
    /\ Len(last.ret) = 2

\* a movie scores on its title, a genre, an actor and a keyword at once
C15_WitnessSum ==
    /\ Queried("find_movies_by_keyword")
    /\ \E m \in Range(last.ret) :
           /\ TermIn(last.args.keyword, Get(QueriedGraph.attr[m], "title", <<>>))
           /\ \A t \in {"director", "genre", "actor", "keyword"} :
                  Cardinality(MatchingNeighbors(QueriedGraph, m, t, last.args.keyword)) >= 2

\* C16: find_similar_movies never returns the movie node the given title resolves to.
C16_NotSimilarToItself ==
    Queried("find_similar_movies") =>
        find_movie_by_title(kgs[last.obj], last.args.movie_title) \notin Range(last.ret)

\* the title resolves to a movie and another movie is returned as similar to it
C16_Witness ==
    /\ Queried("find_similar_movies")
    /\ find_movie_by_title(kgs[last.obj], last.args.movie_title) # NoNode
    /\ Len(last.ret) > 0

\* the KnowledgeGraph built from the movies A, B and C
GraphABC == build_graph_from_data(NewKnowledgeGraph, FrameABC).kg

AskedSimilarToA ==
    /\ Queried("find_similar_movies")
    /\ last.args.movie_title = T_A
    /\ last.args.top_n = 2
    /\ kgs[last.obj] = GraphABC

\* C17: in the graph built from the movies A (genre Action, rating 8.0, year 2010),
\* B (genre Action, rating 7.0, year 2012) and C (genre Drama, rating 9.0, year 1990),
\* find_similar_movies("A", 2) ranks B above C: B is returned, and C is not returned
\* ahead of it.
C17_SharedGenreRanksAbove ==
    AskedSimilarToA =>
        /\ T_movie_2 \in Range(last.ret)
        /\ \A i, j \in 1..Len(last.ret) : (last.ret[i] = T_movie_2 /\ last.ret[j] = T_movie_3) => i < j

\* the question is asked of that graph; B alone comes back, C sharing nothing with A
C17_Witness == AskedSimilarToA /\ last.ret = <<T_movie_2>>

\* no movie node of the graph has a title that contains the term
TitleAbsent(g, term) == \A m \in MovieNodes(g) : ~TermIn(term, Get(g.attr[m], "title", <<>>))

\* C19: when no movie title of the graph contains the title asked for, or the graph has
\* no node of the id asked for, find_similar_movies and search_movies return the empty
\* list and get_movie_details, of the KnowledgeGraph and of the recommender, returns
\* None: no record, and no exception.
C19_AbsentIsEmptyOrNone ==
    /\ (Queried("find_similar_movies") /\ TitleAbsent(QueriedGraph, last.args.movie_title))
           => last.ret = <<>>
    /\ (Queried("search_movies") /\ TitleAbsent(QueriedGraph, last.args.query))
           => last.ret = <<>>
    /\ (Queried("get_movie_details") /\ ~HasNode(QueriedGraph, last.args.movie_id))
           => last.ret = NoDict
    /\ (Queried("facade_get_movie_details") /\ TitleAbsent(QueriedGraph, last.args.movie_title))
           => last.ret = NoDict

\* a graph that holds movies is asked for the details of a node id it does not have
C19_Witness ==
    /\ Queried("get_movie_details")
    /\ ~HasNode(QueriedGraph, last.args.movie_id)
    /\ MovieNodes(QueriedGraph) # {}
    /\ kgs[last.obj].initialized

\* the movie nodes whose title contains the query, in node order
TitleHits(g, query) ==
    SelectSeq(g.nodes, LAMBDA n : TypeOf(g, n) = "movie" /\ TermIn(query, Get(g.attr[n], "title", <<>>)))

\* C20: search_movies(query, limit) returns at most limit records for every limit >= 0;
\* the records are the detail records of the first movies, in node order, whose title
\* contains the query, the scan stopping once limit records are collected.
C20_AtMostLimitRecords ==
    (Queried("search_movies") /\ last.args.limit >= 0 /\ kgs[last.obj].initialized) =>
        LET hits == Prefix(TitleHits(QueriedGraph, last.args.query), last.args.limit)
        IN  /\ Len(last.ret) <= last.args.limit
            /\ last.ret = [i \in 1..Len(hits) |-> MovieData(QueriedGraph, hits[i])]

\* The same for every limit >= 1.
C20_AtMostLimitFromOne ==
    (Queried("search_movies") /\ last.args.limit >= 1 /\ kgs[last.obj].initialized) =>
        LET hits == Prefix(TitleHits(QueriedGraph, last.args.query), last.args.limit)
        IN  /\ Len(last.ret) <= last.args.limit
            /\ last.ret = [i \in 1..Len(hits) |-> MovieData(QueriedGraph, hits[i])]

(***************************************************************************)
(* Properties of initialize() and of get_random_movies (Spec)              *)
(***************************************************************************)
\* C11: when load_graph fails (returns False), also on a blob that lacks the node_types
\* or the initialized entry, the graph, the type index and the initialized flag of the
\* KnowledgeGraph are what they were before the call: nothing of the blob is retained,
\* and the build that follows starts from the state before the load.
C11_FailedLoadChangesNothing ==
    (last.op = "initialize" /\ last.load = "failed") => last.loaded = last.before

\* the answers of the facade over the KnowledgeGraph kg, to the queries qs
Answers(kg, initialized, qs) ==
    [q \in qs |-> FacadeCall([knowledge_graph |-> kg, initialized |-> initialized], q).ret]

\* queries that find something in a graph built from the source datasets
InMemoryQueries ==
    {[op |-> "facade_search_movies", query |-> T_heat, limit |-> 2],
     [op |-> "facade_get_movie_details", movie_title |-> T_heat],
     [op |-> "recommend_by_keyword", keyword |-> T_al, top_n |-> 2],
     [op |-> "get_system_info"]}

\* C12: when the graph is built but save_graph fails, initialize() still returns True
\* with initialized = True, and the facade answers queries from the graph in memory.
C12_FailedSaveStillInitialized ==
    (last.op = "initialize" /\ last.save = "failed") =>
        /\ last.ret = TRUE
        /\ recs[last.rec].initialized
        /\ kgs[last.rec].initialized
        /\ Answers(kgs[last.rec], recs[last.rec].initialized, InMemoryQueries)
               = Answers(build_graph_from_data(last.loaded, load_and_process_data(processed_data_file, csv_files).ret).kg,
                         TRUE, InMemoryQueries)

\* the save failed and left no blob, and the facade finds the movies of the built graph
C12_Witness ==
    /\ last.op = "initialize"
    /\ last.save = "failed"
    /\ ~IsPickle(model_file)
    /\ Len(FacadeCall(Rec(last.rec), [op |-> "facade_search_movies", query |-> T_heat, limit |-> 2]).ret) = 2

\* C18: after a successful initialization, get_random_movies(n) for n >= 1 returns
\* min(n, movie_count) records, for distinct movie ids of the movie bucket.
C18_RandomMoviesSampleSize ==
    (last.op = "get_random_movies" /\ last.initialized /\ last.args.n >= 1) =>
        \E r \in DOMAIN kgs :
            LET movie_nodes == IndexGet(kgs[r].node_types, "movie", <<>>)
            IN  /\ recs[r].initialized
                /\ Len(last.ret) = Min(last.args.n, Len(movie_nodes))
                /\ \A i, j \in 1..Len(last.ret) : last.ret[i].movie_id = last.ret[j].movie_id => i = j

(***************************************************************************)
(* Properties of the records the facade returns (Spec)                     *)
(***************************************************************************)
RecordFields ==
    {"movie_id", "title", "year", "rating", "popularity", "vote_count",
     "genres", "directors", "actors", "keywords", "companies", "type"}

\* the records of the last facade call, as a sequence
LastRecords ==
    IF ~("args" \in DOMAIN last) THEN <<>>
    ELSE IF last.op \in {"get_recommendation_details", "facade_search_movies", "get_random_movies"}
         THEN last.ret
    ELSE IF last.op = "facade_get_movie_details" /\ last.ret # NoDict THEN <<last.ret>>
    ELSE <<>>

\* C21: every record the facade returns, from get_recommendation_details,
\* search_movies, get_movie_details or get_random_movies, has the same set of fields:
\* movie_id, title, year, rating, popularity, vote_count, genres, directors, actors,
\* keywords, companies and the tag of the query path.
C21_OneRecordShape ==
    \A i \in 1..Len(LastRecords) : DOMAIN LastRecords[i] = RecordFields

\* C27: in every state of the lifecycle a recommender whose initialized flag is True
\* holds a KnowledgeGraph whose initialized flag is True.
C27_RecommenderFlagImpliesGraphFlag ==
    \A r \in DOMAIN recs : recs[r].initialized => kgs[r].initialized

\* a recommender was initialized by loading the blob an earlier run saved
C27_Witness ==
    /\ last.op = "initialize"
    /\ last.load = "ok"
    /\ recs[last.rec].initialized
    /\ Len(kgs[last.rec].graph.nodes) > 0

\* C29: each record of the facade's search_movies carries as movie_id the integer
\* identifier of the movie node it was made from, the id get_movie_details and
\* get_recommendation_details report for that movie.
C29_SearchRecordsCarryMovieId ==
    (last.op = "facade_search_movies" /\ last.initialized) =>
        \A i \in 1..Len(last.ret) :
            \E r \in DOMAIN kgs : \E m \in MovieNodes(kgs[r].graph) :
                /\ Get(kgs[r].graph.attr[m], "title", <<>>) = last.ret[i].title
                /\ last.ret[i].movie_id = NodeMovieId(m).ret

(***************************************************************************)
(* Properties of the built graph's entity nodes (SpecEngine) and of the    *)
(* detail records and the keyword match (SpecQuery)                        *)
(***************************************************************************)
RECURSIVE NamesRead(_, _)
\* the names the build reads from the column of category cat, in the order of the loop
NamesRead(df, cat) ==
    IF df = <<>> THEN <<>>
    ELSE SelectSeq(Prefix(Head(df)[cat.column], cat.limit), LAMBDA name : name # <<>>)
         \o NamesRead(Tail(df), cat)

EntityId(cat, name) == NodeId(cat.prefix, _sanitize_name(name))

\* the first of the names that is sanitized to the key of node nid
FirstNameOf(names, cat, nid) ==
    names[CHOOSE i \in 1..Len(names) :
              /\ EntityId(cat, names[i]) = nid
              /\ \A j \in 1..(i - 1) : EntityId(cat, names[j]) # nid]

\* C25: during a build an entity node is inserted only if no node of its type and
\* sanitized key exists yet; a later name that is sanitized to the key of an existing
\* entity node leaves that node and its name attribute unchanged, so after the build
\* every entity node bears the first name that was sanitized to its key.
C25_EntityKeepsFirstName ==
    BuiltNow =>
        \A c \in 1..Len(Categories) :
            LET names == NamesRead(last.df, Categories[c])
            IN  \A i \in 1..Len(names) :
                    LET nid == EntityId(Categories[c], names[i])
                    IN  /\ Occurrences(kgs[last.obj].graph.nodes, nid) = 1
                        /\ kgs[last.obj].graph.attr[nid].name = FirstNameOf(names, Categories[c], nid)

\* the detail records of the last facade call
LastDetailRecords ==
    IF Queried("get_recommendation_details") THEN last.ret
    ELSE IF Queried("facade_get_movie_details") /\ last.ret # NoDict THEN <<last.ret>>
    ELSE <<>>

\* C22: in every detail record the facade returns, from get_movie_details and from
\* get_recommendation_details, actors has at most 5 entries, keywords at most 5 and
\* companies at most 3, for any graph in memory, also one whose movies have more
\* neighbours than the build's limits.
C22_DetailListsCapped ==
    \A i \in 1..Len(LastDetailRecords) :
        /\ Len(LastDetailRecords[i].actors) <= 5
        /\ Len(LastDetailRecords[i].keywords) <= 5
        /\ Len(LastDetailRecords[i].companies) <= 3

\* the match test with the allowed types required of title and name alike
KeywordMatchesAllowed(attrs, keyword_lower) ==
    /\ Get(attrs, "type", None) \in {"movie", "genre", "director", "actor", "keyword"}
    /\ \/ Contains(keyword_lower, Lower(Get(attrs, "title", <<>>)))
       \/ Contains(keyword_lower, Lower(Get(attrs, "name", <<>>)))

\* find_movies_by_keyword with only nodes of the allowed types as matching nodes
KeywordResultAllowedOnly(kg, keyword, top_n) ==
    IF ~kg.initialized THEN <<>>
    ELSE LET g == kg.graph
             matching_nodes == SelectSeq(g.nodes, LAMBDA n : KeywordMatchesAllowed(g.attr[n], Lower(keyword)))
             movie_nodes == IndexGet(kg.node_types, "movie", <<>>)
             scored == SelectSeq(movie_nodes, LAMBDA mv : _calculate_movie_score(g, mv, matching_nodes) > 0)
             ranked == Slice(SortedDesc(<<>>, MovieScores(g, scored, matching_nodes)), top_n)
         IN  [i \in 1..Len(ranked) |-> ranked[i].node]

\* C30: for every graph, term and top_n, find_movies_by_keyword returns the list it
\* would return if nodes outside the allowed types (company nodes whose name contains
\* the term) were not counted as matching nodes.
C30_PrecedenceChangesNoResult ==
    Queried("find_movies_by_keyword") =>
        last.ret = KeywordResultAllowedOnly(kgs[last.obj], last.args.keyword, last.args.top_n)

\* a company node that is a neighbour of a movie matches the term, and movies are returned
C30_Witness ==
    /\ Queried("find_movies_by_keyword")
    /\ Len(last.ret) > 0
    /\ \E m \in MovieNodes(QueriedGraph) :
           MatchingNeighbors(QueriedGraph, m, "company", last.args.keyword) # {}
    /\ \E m \in MovieNodes(QueriedGraph) \ Range(last.ret) :
           MatchingNeighbors(QueriedGraph, m, "company", last.args.keyword) # {}

(***************************************************************************)
(* The data processor on its own: the two CSV files hold one movie and its *)
(* credits row, and load_and_process_data is run on them.                  *)
(***************************************************************************)
T_Date95 == <<"9", "5", "-", "1", "-", "1">>
T_DateSlash == <<"1", "9", "9", "5", "/", "1", "2">>
T_DateText == <<"n", "/", "a">>
T_DateLong == <<"1", "9", "9", "5", "0", "1", "-", "0", "2">>

\* release_date cells
DateCells == {NaN, <<>>, T_Date1995, T_1999, T_Date95, T_DateSlash, T_DateText, T_DateLong}

\* crew cells
CrewCells ==
    {JsonNaN, JsonEmpty, JsonBrackets, JsonInvalid, JsonScalar,
     JsonList(<<DictItem([name |-> T_Cy, job |-> T_Director]), DictItem([name |-> T_Di, job |-> T_Writer])>>),
     JsonList(<<DictItem([name |-> T_Di, job |-> T_Director]), DictItem([name |-> T_Ed, job |-> T_Writer]),
                DictItem([name |-> T_Cy, job |-> T_Director])>>),
     JsonList(<<DictItem([name |-> T_Ed, job |-> T_Writer])>>),
     JsonList(<<OtherItem, DictItem([job |-> T_Director]), DictItem([name |-> T_Al, job |-> T_Director])>>)}

RawSources ==
    {Csv(<<[Movie1 EXCEPT !.release_date = d]>>, <<[Credits1 EXCEPT !.crew = c]>>) :
        d \in DateCells, c \in CrewCells}

InitNormalize ==
    /\ csv_files \in RawSources
    /\ processed_data_file = Missing
    /\ kgs = <<>>
    /\ model_file = Missing
    /\ last = [op |-> "init"]
    /\ saved = [valid |-> FALSE]
    /\ kg_recommender = None
    /\ recs = <<>>
    /\ pc = [t \in Threads |-> "idle"]
    /\ local = [t \in Threads |-> NoLocals]
    /\ hist = NoHistory

\* KGDataProcessor.load_and_process_data on the files of the data directory
LoadAndProcess ==
    /\ \E res \in {load_and_process_data(processed_data_file, csv_files)} :
           /\ processed_data_file' = res.cache
           /\ last' = [op |-> "load_and_process_data", is_none |-> res.is_none, ret |-> res.ret,
                       cached |-> processed_data_file # Missing]
    /\ UNCHANGED <<kgs, model_file, saved, kg_recommender, recs, pc, local, csv_files, hist>>

NextNormalize == LoadAndProcess

SpecNormalize == InitNormalize /\ [][NextNormalize]_vars

(***************************************************************************)
(* Properties of the data processor (SpecNormalize)                        *)
(***************************************************************************)
Processed == last.op = "load_and_process_data" /\ ~last.is_none

\* the names of the entries of a crew cell whose job is "Director", in the cell's order
DirectorsOf(crew) ==
    IF crew.cell # "literal" THEN <<>>
    ELSE LET kept == SelectSeq(crew.items,
                        LAMBDA item : /\ item.is_dict
                                      /\ Get(item.dict, "job", <<>>) = T_Director
                                      /\ Get(item.dict, "name", <<>>) # <<>>)
         IN  [i \in 1..Len(kept) |-> kept[i].dict.name]

\* C23: for every raw joined row, the directors list of the normalized row is the
\* names of the row's crew entries whose job is "Director", in source order; it is
\* empty only if the crew has no such entry.
C23_DirectorsFromCrew ==
    Processed => \A i \in 1..Len(last.ret) : last.ret[i].directors = DirectorsOf(last.ret[i].crew)

\* C24: for every input extract_year returns a year token of 4 characters, the first 4
\* characters of the date string, before its first separator, or the sentinel
\* "Unknown"; a missing or unparseable date gives "Unknown".
C24_YearTokenOrUnknown ==
    Processed =>
        \A i \in 1..Len(last.ret) :
            \/ last.ret[i].year = T_Unknown
            \/ /\ last.ret[i].release_date # NaN
               /\ Len(last.ret[i].year) = 4
               /\ last.ret[i].year = Prefix(last.ret[i].release_date, 4)
               /\ \A k \in 1..4 : IsDigit(last.ret[i].year[k])

(***************************************************************************)
(* The data directory over several runs of the program: the operator       *)
(* replaces the source datasets, deletes the persisted graph, and starts   *)
(* the process, whose first request initializes a new recommender.         *)
(***************************************************************************)
InitRebuild ==
    /\ csv_files \in {Missing} \cup CsvSets
    /\ processed_data_file = Missing
    /\ model_file = Missing
    /\ kgs = <<>>
    /\ recs = <<>>
    /\ kg_recommender = None
    /\ last = [op |-> "init"]
    /\ saved = [valid |-> FALSE]
    /\ pc = [t \in Threads |-> "idle"]
    /\ local = [t \in Threads |-> NoLocals]
    /\ hist = NoHistory

\* the thread of the first request of a process
FirstThread == CHOOSE t \in Threads : TRUE

\* a new process serves its first request: get_kg_recommender() creates the
\* recommender and runs initialize()
Serve(io) ==
    /\ \E r \in {FirstThread}, res \in {initialize(NewRecommender, model_file, processed_data_file, csv_files, io)} :
           /\ kgs' = (r :> res.rec.knowledge_graph)
           /\ recs' = (r :> [initialized |-> res.rec.initialized])
           /\ kg_recommender' = r
           /\ model_file' = res.model
           /\ processed_data_file' = res.cache
           /\ last' = [op |-> "initialize", ret |-> res.ret, rec |-> r, before |-> NewKnowledgeGraph,
                       load |-> res.steps.load, loaded |-> res.steps.loaded, save |-> res.steps.save]
    /\ UNCHANGED <<saved, pc, local, csv_files, hist>>

\* the operator replaces the two CSV files
ChangeSource(csv) ==
    /\ csv # csv_files
    /\ csv_files' = csv
    /\ last' = [op |-> "change_source"]
    /\ UNCHANGED <<kgs, recs, kg_recommender, pc, local, processed_data_file, model_file, saved, hist>>

\* the operator deletes kg_model.pkl
DeleteModel ==
    /\ model_file # Missing
    /\ model_file' = Missing
    /\ last' = [op |-> "delete_model"]
    /\ UNCHANGED <<kgs, recs, kg_recommender, pc, local, csv_files, processed_data_file, saved, hist>>

\* the operator deletes kg_processed_data.pkl
DeleteProcessedData ==
    /\ processed_data_file # Missing
    /\ processed_data_file' = Missing
    /\ last' = [op |-> "delete_processed_data"]
    /\ UNCHANGED <<kgs, recs, kg_recommender, pc, local, csv_files, model_file, saved, hist>>

NextRebuild ==
    \/ \E io \in SaveOutcomes : Serve(io)
    \/ \E csv \in CsvSets : ChangeSource(csv)
    \/ DeleteModel
    \/ DeleteProcessedData

SpecRebuild == InitRebuild /\ [][NextRebuild]_vars

(***************************************************************************)
(* Properties of a rebuild (SpecRebuild)                                   *)
(***************************************************************************)
\* what build_graph_from_data makes of the source datasets as they are now
BuiltFromSource(source) ==
    build_graph_from_data(NewKnowledgeGraph, _process_kg_features(Joined(source.movies, source.credits)))

\* C26: after the source datasets change, deleting the persisted graph and
\* initializing again yields the graph built from the current source datasets: an
\* initialize() that finds no kg_model.pkl succeeds exactly if the current datasets
\* can be built, and then holds the graph built from them.
C26_RebuildReadsCurrentSource ==
    (last.op = "initialize" /\ last.load = "skipped" /\ csv_files # Missing) =>
        /\ last.ret = ~BuiltFromSource(csv_files).raised
        /\ last.ret => kgs[last.rec] = BuiltFromSource(csv_files).kg

(***************************************************************************)
(* The serving process with initialize() taken statement by statement:     *)
(* another thread can run between the writes of load_graph and of          *)
(* build_graph_from_data.  A thread's locals hold `self`, the recommender  *)
(* its initialize() call runs on, the blob it unpickled and the frame it   *)
(* processed.                                                              *)
(***************************************************************************)
InitSteps ==
    /\ kgs = <<>>
    /\ recs = <<>>
    /\ kg_recommender = None
    /\ pc = [t \in Threads |-> "idle"]
    /\ local = [t \in Threads |-> NoLocals]
    /\ csv_files = CsvA
    /\ processed_data_file = Missing
    /\ model_file = Missing
    /\ last = [op |-> "init"]
    /\ saved = [valid |-> FALSE]
    /\ hist = NoHistory

Goto(t, label) == pc' = [pc EXCEPT ![t] = label]

\* the KnowledgeGraph of the recommender thread t is initializing
Self(t) == local[t].self

\* get_kg_recommender line 29 and initialize lines 22-27: the global is read, the
\* method is entered on that recommender, and os.path.exists(kg_model_file) is tested
Begin(t) ==
    /\ pc[t] = "initialize"
    /\ local' = [local EXCEPT ![t] = [rec |-> None, late |-> FALSE, self |-> kg_recommender,
                                      graph_data |-> Missing, df |-> <<>>]]
    /\ Goto(t, IF model_file.state # "missing" THEN "pickle_load" ELSE "process")
    /\ last' = [op |-> "begin"]
    /\ UNCHANGED <<kgs, recs, kg_recommender, csv_files, processed_data_file, model_file, saved, hist>>

\* load_graph lines 302-303: graph_data = pickle.load(f); a failure makes load_graph
\* return False and initialize go on to the build
PickleLoad(t) ==
    /\ pc[t] = "pickle_load"
    /\ local' = [local EXCEPT ![t].graph_data = model_file]
    /\ Goto(t, IF IsPickle(model_file) THEN "load_graph" ELSE "process")
    /\ last' = [op |-> "pickle_load"]
    /\ UNCHANGED <<kgs, recs, kg_recommender, csv_files, processed_data_file, model_file, saved, hist>>

\* load_graph line 305: self.graph = graph_data['graph']
AssignGraph(t) ==
    /\ pc[t] = "load_graph"
    /\ IF "graph" \in DOMAIN local[t].graph_data.pickle
       THEN /\ kgs' = [kgs EXCEPT ![Self(t)].graph = local[t].graph_data.pickle.graph]
            /\ Goto(t, "load_node_types")
       ELSE /\ kgs' = kgs
            /\ Goto(t, "process")
    /\ last' = [op |-> "assign_graph"]
    /\ UNCHANGED <<recs, kg_recommender, local, csv_files, processed_data_file, model_file, saved, hist>>

\* load_graph line 306: self.node_types = defaultdict(list, graph_data['node_types'])
AssignNodeTypes(t) ==
    /\ pc[t] = "load_node_types"
    /\ IF "node_types" \in DOMAIN local[t].graph_data.pickle
       THEN /\ kgs' = [kgs EXCEPT ![Self(t)].node_types = DefaultDictList(local[t].graph_data.pickle.node_types)]
            /\ Goto(t, "load_initialized")
       ELSE /\ kgs' = kgs
            /\ Goto(t, "process")
    /\ last' = [op |-> "assign_node_types"]
    /\ UNCHANGED <<recs, kg_recommender, local, csv_files, processed_data_file, model_file, saved, hist>>

\* load_graph line 307: self.initialized = graph_data['initialized'], and the return True
AssignInitialized(t) ==
    /\ pc[t] = "load_initialized"
    /\ IF "initialized" \in DOMAIN local[t].graph_data.pickle
       THEN /\ kgs' = [kgs EXCEPT ![Self(t)].initialized = local[t].graph_data.pickle.initialized]
            /\ Goto(t, "set_initialized")
       ELSE /\ kgs' = kgs
            /\ Goto(t, "process")
    /\ last' = [op |-> "assign_initialized"]
    /\ UNCHANGED <<recs, kg_recommender, local, csv_files, processed_data_file, model_file, saved, hist>>

\* initialize lines 36-39: load_and_process_data(); None makes initialize return False
\* and get_kg_recommender raise
Process(t) ==
    /\ pc[t] = "process"
    /\ \E res \in {load_and_process_data(processed_data_file, csv_files)} :
           /\ processed_data_file' = res.cache
           /\ local' = [local EXCEPT ![t].df = res.ret]
           /\ Goto(t, IF res.is_none THEN "idle" ELSE "add_rows")
    /\ last' = [op |-> "load_and_process_data"]
    /\ UNCHANGED <<kgs, recs, kg_recommender, csv_files, model_file, saved, hist>>

\* build_graph_from_data lines 19-79: the rows are added to self.graph; an empty frame
\* raises, which initialize turns into False
AddRowsStep(t) ==
    /\ pc[t] = "add_rows"
    /\ IF Len(local[t].df) = 0
       THEN /\ kgs' = kgs
            /\ Goto(t, "idle")
       ELSE /\ kgs' = [kgs EXCEPT ![Self(t)].graph = AddRows(@, local[t].df)]
            /\ Goto(t, "clear")
    /\ last' = [op |-> "add_rows"]
    /\ UNCHANGED <<recs, kg_recommender, local, csv_files, processed_data_file, model_file, saved, hist>>

\* _categorize_nodes line 93: self.node_types.clear()
Clear(t) ==
    /\ pc[t] = "clear"
    /\ kgs' = [kgs EXCEPT ![Self(t)].node_types = EmptyIndex]
    /\ Goto(t, "categorize")
    /\ last' = [op |-> "clear"]
    /\ UNCHANGED <<recs, kg_recommender, local, csv_files, processed_data_file, model_file, saved, hist>>

\* _categorize_nodes lines 94-96: the nodes are appended to their buckets
Categorize(t) ==
    /\ pc[t] = "categorize"
    /\ kgs' = [kgs EXCEPT ![Self(t)].node_types = Bucketed(@, kgs[Self(t)].graph, kgs[Self(t)].graph.nodes)]
    /\ Goto(t, "graph_initialized")
    /\ last' = [op |-> "categorize"]
    /\ UNCHANGED <<recs, kg_recommender, local, csv_files, processed_data_file, model_file, saved, hist>>

\* build_graph_from_data line 83: self.initialized = True
SetGraphInitialized(t) ==
    /\ pc[t] = "graph_initialized"
    /\ kgs' = [kgs EXCEPT ![Self(t)].initialized = TRUE]
    /\ Goto(t, "save_graph")
    /\ last' = [op |-> "graph_initialized"]
    /\ UNCHANGED <<recs, kg_recommender, local, csv_files, processed_data_file, model_file, saved, hist>>

\* initialize lines 48-49: save_graph; a failure is only logged
SaveGraph(t, io) ==
    /\ pc[t] = "save_graph"
    /\ model_file' = save_graph(kgs[Self(t)], model_file, io).file
    /\ Goto(t, "set_initialized")
    /\ last' = [op |-> "save_graph"]
    /\ UNCHANGED <<kgs, recs, kg_recommender, local, csv_files, processed_data_file, saved, hist>>

\* initialize lines 30 and 51: self.initialized = True, and the return True
SetInitialized(t) ==
    /\ pc[t] = "set_initialized"
    /\ recs' = [recs EXCEPT ![Self(t)].initialized = TRUE]
    /\ Goto(t, "return")
    /\ last' = [op |-> "set_initialized"]
    /\ UNCHANGED <<kgs, kg_recommender, local, csv_files, processed_data_file, model_file, saved, hist>>

\* the queries of the requests: /graph-stats tests KnowledgeGraph.initialized, the
\* facade tests KnowledgeGraphRecommender.initialized
StepQueries == {[op |-> "get_graph_info"], [op |-> "recommend_by_keyword", keyword |-> T_al, top_n |-> 2]}

\* a request uses the recommender get_kg_recommender returned
StepQuery(t, q) ==
    /\ pc[t] = "have"
    /\ \E r \in {local[t].rec} :
           last' = [op |-> q.op, args |-> q, rec |-> r,
                    passed |-> IF q.op = "get_graph_info" THEN kgs[r].initialized ELSE recs[r].initialized,
                    ret |-> IF q.op = "get_graph_info" THEN get_graph_info(kgs[r])
                            ELSE recommend_by_keyword(Rec(r), q.keyword, q.top_n).ret]
    /\ Goto(t, "idle")
    /\ UNCHANGED <<kgs, recs, kg_recommender, local, csv_files, processed_data_file, model_file, saved, hist>>

NextSteps ==
    \/ \E t \in Threads : Enter(t)
    \/ \E t \in Threads : Create(t)
    \/ \E t \in Threads : Begin(t)
    \/ \E t \in Threads : PickleLoad(t)
    \/ \E t \in Threads : AssignGraph(t)
    \/ \E t \in Threads : AssignNodeTypes(t)
    \/ \E t \in Threads : AssignInitialized(t)
    \/ \E t \in Threads : Process(t)
    \/ \E t \in Threads : AddRowsStep(t)
    \/ \E t \in Threads : Clear(t)
    \/ \E t \in Threads : Categorize(t)
    \/ \E t \in Threads : SetGraphInitialized(t)
    \/ \E t \in Threads, io \in SaveOutcomes : SaveGraph(t, io)
    \/ \E t \in Threads : SetInitialized(t)
    \/ \E t \in Threads : Return(t)
    \/ \E t \in Threads, q \in StepQueries : StepQuery(t, q)
    \/ Restart

SpecSteps == InitSteps /\ [][NextSteps]_vars

\* the positions of a thread inside initialize()
InitializeLabels ==
    {"pickle_load", "load_graph", "load_node_types", "load_initialized", "process", "add_rows",
     "clear", "categorize", "graph_initialized", "save_graph", "set_initialized"}

(***************************************************************************)
(* Properties of concurrent initialization (SpecSteps)                     *)
(***************************************************************************)
\* C28: while one thread runs initialize (build or load), a query of another thread
\* that passes an initialized check, of the recommender or of the KnowledgeGraph,
\* never reads a graph or a type index still under construction: what it reads is a
\* graph whose type index holds every node once, in the bucket of its type.
C28_QueriesReadCompleteGraph ==
    (/\ last.op \in {"get_graph_info", "recommend_by_keyword"}
     /\ "passed" \in DOMAIN last
     /\ last.passed
     /\ \E u \in Threads : pc[u] \in InitializeLabels /\ Self(u) = last.rec) =>
        /\ IndexConsistent(kgs[last.rec])
        /\ Len(kgs[last.rec].graph.nodes) > 0

====
